---------------------------- MODULE Spec2Model ----------------------------
(***************************************************************************)
(* Sound-QR: a QR bit matrix is packed column by column into 6-bit chunks, *)
(* each chunk is sent as one tone of a 64-entry frequency grid between a   *)
(* start and an end marker, the cycle is repeated and mixed into a carrier,*)
(* and a decoder scans a recording for markers and rebuilds the matrix.    *)
(*                                                                         *)
(* The module holds one state machine per part of the program:             *)
(*   SpecCodec   matrix -> chunks -> tones -> matrix                       *)
(*               (SoundQREncoder.convertMatrixToChunks, the Goertzel       *)
(*               decoder's decodeCycle / detectChunkValue)                 *)
(*   SpecDecode  SoundQRDecoder.decode of src/utils/soundQRDecoder.js      *)
(*   SpecGoertzel SoundQRDecoder.decode of the Goertzel decoder            *)
(*   SpecEncode  SoundQREncoder.encode and its mixing                      *)
(*   SpecLive    the live listening loop of components/QRDecoder.js        *)
(* Every specification leaves the variables of the other parts unchanged.  *)
(***************************************************************************)
EXTENDS Integers, Sequences, FiniteSets, TLC

VARIABLES
    \* ---- codec ----
    version,        \* QR version of the matrix being sent
    qrMatrix,       \* the matrix handed to the encoder, qrMatrix[y][x]
    chunks,         \* the chunk values convertMatrixToChunks returned
    tones,          \* the frequency of the tone emitted in each chunk slot
    colBits,        \* decodeCycle's colBits string of every column
    decodedMatrix,  \* the matrix decodeCycle rebuilt, decodedMatrix[r][col]
    cpc,            \* position of the codec pipeline
    \* ---- SoundQREncoder.encode ----
    sampleRate,     \* audioProcessor.sampleRate
    cycles,         \* options.cycles
    carrier,        \* the decoded carrier: numberOfChannels, length, data
    embedAmplitude, \* amplitude of every emitted tone, in 1/1000
    encodedParts,   \* the parts pushed so far, in order
    cycleIdx,       \* the loop variable c of the cycle loop
    toneCalls,      \* number of generateTone calls so far
    encodedSignal,  \* the merged mono control signal
    outBuffer,      \* the mixed buffer encode returns: length, data
    encOutcome,     \* "none", "ok" or the error encode threw
    epc,            \* position inside encode
    \* ---- SoundQRDecoder.decode (src/utils/soundQRDecoder.js) ----
    hitsPerCycle,   \* per embedded cycle: scan windows whose marker passes
    cycleConf,      \* per embedded cycle: analyzeCycleExtensive's confidence
    intact,         \* per embedded cycle: does its matrix decode as a QR code
    maxProcessingTime, \* options.maxProcessingTime
    now,            \* Date.now() - startTime
    validCycles,    \* what detectValidCycles returned
    attemptIdx,     \* the loop variable i of the candidate loop
    attempted,      \* the attempts made: candidate index, time it started
    dOutcome,       \* "none", "ok" or the message of the error thrown
    dResult,        \* the object decode returned
    dpc,            \* position inside decode
    \* ---- SoundQRDecoder.decode (Goertzel decoder) ----
    gMarkers,       \* the recording: windows that hold start-marker energy
    gCycles,        \* validCycles
    gMaxFreq,       \* maxFreq taken from the detection result
    gIdx,           \* number of candidates the for-of loop has consumed
    gOutcome,       \* "none", "ok" or the message of the error thrown
    gPayload,       \* err.maxFreqDetected of the error thrown
    gResult,        \* the object decode returned
    gpc,            \* position inside decode
    \* ---- live listening of components/QRDecoder.js ----
    mounted,        \* the component is mounted
    isRecording,    \* React state isRecording
    sessionsStarted,\* number of startRecording calls so far
    startPc,        \* per startRecording call: its position
    streamOf,       \* per call: the capture stream it obtained
    recorderOf,     \* per call: the MediaRecorder it created
    onstopQueued,   \* recorders whose stop event is queued, not yet dispatched
    liveTimers,     \* interval timers that are set and not cleared
    analysisIntervalRef, \* analysisIntervalRef.current, 0 for null
    mediaRecorderRef,    \* mediaRecorderRef.current, 0 for null
    audioChunks,    \* audioChunksRef.current.length
    isAnalyzingRef, \* isAnalyzingRef.current
    passes,         \* per timer: analysis passes in flight
    succeeded,      \* timers one of whose passes obtained a decode result
    lateStart,      \* a pass was started by a timer after its success
    lastTick,       \* what the latest timer tick did
    \* ---- version parameter lookups ----
    vOp,            \* the lookup that was called, "none" before the call
    vDurationMs,    \* audioBuffer.duration of the buffer given to decodeCycle
    vResult,         \* what the call returned or threw
    \* ---- frequency plans ----
    gridPlan,       \* which AudioProcessor's frequency plan is in use
    gridValue,      \* the chunk value handed to the mapping
    gridFreq,       \* the frequency the mapping returned, or the error
    gridDetected,   \* the chunk value read back from a tone of gridFreq
    gridPc,          \* position of the mapping round trip
    \* ---- embed amplitude and tone synthesis ----
    toneVariant,    \* which encode computes the embed amplitude
    toneCarrier,    \* the samples of carrier channel 0
    toneAmplitude,  \* embedAmplitude, in thousandths
    toneDurationMs, \* the duration generateTone is called with
    toneBuffer,     \* what generateTone returned or threw
    tonePc,          \* position within the measurement and the call
    \* ---- decodeCycle of utils/soundQRDecoder.js ----
    rcReceived,     \* the chunk value sounding in every chunk slot of the cycle
    rcAvailable,    \* samples of channelData from the candidate's startSample on
    rcCycleLen,     \* cycleData.length
    rcOffset,       \* sampleOffset
    rcColumns,      \* the chunks read for each column the loop reached
    rcMatrix,       \* the matrix handed to decodeQRMatrix
    rcPc,            \* position within decodeCycle
    \* ---- refineCycleAlignment ----
    alCenter,       \* centerSample: the coarse timestamp, in samples
    alDataLen,      \* data.length
    alMarkerAt,     \* the sample the start marker really begins at
    alCoarse,       \* the positions the coarse scan evaluated
    alFine,         \* the positions the fine scan evaluated
    alBest,         \* bestSampleIndex
    alPc,            \* position of the call
    \* ---- detectBitWithFallback of services/steganographyService.js ----
    vtRms,          \* rms of the segment, in 0.00001
    vtCorrelation,  \* sine correlation at freq0 and freq1, in 0.0001
    vtPower,        \* DFT magnitude at freq0 and freq1, in 0.0001
    vtCrossings,    \* zero crossings of the segment
    vtBits,         \* the results of the four detectors
    vtResult,       \* what detectBitWithFallback returned
    vtPc,            \* position of the call
    \* ---- cycle lengths of encoder and decoder ----
    clRate,         \* the sample rate of the AudioProcessor
    clStarts,       \* the sample each emitted cycle begins at
    clEmitted,      \* samples pushed onto encodedParts so far
    clExpected,      \* expectedCycleSamples of decodeCycle, 0 before it ran
    \* ---- demodulation windows of decodeCycle (Goertzel decoder) ----
    swRate,         \* audioBuffer.sampleRate
    swStart,        \* the sample the cycle's start marker begins at
    swLength,       \* data.length
    swWindows,      \* per chunk slot: the samples the window covers
    swPc,            \* position of the call: "call", "null", "read"
    \* MicrophoneRecorder (components/Navigation/Navigation.js)
    sampleBuffer,       \* length of the callback's sampleBuffer, in samples
    isProcessing,       \* the React state isProcessing
    realtimeDecodes,    \* the await each unsettled tryRealtimeDecoding call is suspended at
    fullRecording,      \* the position of processFullRecording
    micRecording,       \* the React state isRecording of MicrophoneRecorder
    recordedChunks      \* length of audioChunksRef.current

codecVars == <<version, qrMatrix, chunks, tones, colBits, decodedMatrix, cpc>>

encVars == <<sampleRate, cycles, carrier, embedAmplitude, encodedParts, cycleIdx,
             toneCalls, encodedSignal, outBuffer, encOutcome, epc>>

decVars == <<hitsPerCycle, cycleConf, intact, maxProcessingTime, now, validCycles,
             attemptIdx, attempted, dOutcome, dResult, dpc>>

gzVars == <<gMarkers, gCycles, gMaxFreq, gIdx, gOutcome, gPayload, gResult, gpc>>

liveVars == <<mounted, isRecording, sessionsStarted, startPc, streamOf, recorderOf,
              onstopQueued, liveTimers, analysisIntervalRef, mediaRecorderRef,
              audioChunks, isAnalyzingRef, passes, succeeded, lateStart, lastTick>>

versionVars == <<vOp, vDurationMs, vResult>>

gridVars == <<gridPlan, gridValue, gridFreq, gridDetected, gridPc>>

toneVars == <<toneVariant, toneCarrier, toneAmplitude, toneDurationMs, toneBuffer, tonePc>>

recoverVars == <<rcReceived, rcAvailable, rcCycleLen, rcOffset, rcColumns, rcMatrix, rcPc>>

alignVars == <<alCenter, alDataLen, alMarkerAt, alCoarse, alFine, alBest, alPc>>

voteVars == <<vtRms, vtCorrelation, vtPower, vtCrossings, vtBits, vtResult, vtPc>>

lengthVars == <<clRate, clStarts, clEmitted, clExpected>>

windowVars == <<swRate, swStart, swLength, swWindows, swPc>>

micVars == <<sampleBuffer, isProcessing, realtimeDecodes, fullRecording, micRecording, recordedChunks>>

vars == <<codecVars, encVars, decVars, gzVars, liveVars, versionVars, gridVars, toneVars, recoverVars, alignVars, voteVars, lengthVars, windowVars, micVars>>

\* what the actions of one part leave unchanged of the other parts
codecFrame == <<encVars, decVars, gzVars, liveVars, versionVars, gridVars, toneVars, recoverVars, alignVars, voteVars, lengthVars, windowVars, micVars>>

encFrame == <<tones, colBits, decodedMatrix, cpc, decVars, gzVars, liveVars, versionVars, gridVars, toneVars, recoverVars, alignVars, voteVars, lengthVars, windowVars, micVars>>

decFrame == <<codecVars, encVars, gzVars, liveVars, versionVars, gridVars, toneVars, recoverVars, alignVars, voteVars, lengthVars, windowVars, micVars>>

gzFrame == <<codecVars, encVars, decVars, liveVars, versionVars, gridVars, toneVars, recoverVars, alignVars, voteVars, lengthVars, windowVars, micVars>>

liveFrame == <<codecVars, encVars, decVars, gzVars, versionVars, gridVars, toneVars, recoverVars, alignVars, voteVars, lengthVars, windowVars, micVars>>

versionFrame == <<codecVars, encVars, decVars, gzVars, liveVars, gridVars, toneVars, recoverVars, alignVars, voteVars, lengthVars, windowVars, micVars>>

gridFrame == <<codecVars, encVars, decVars, gzVars, liveVars, versionVars, toneVars, recoverVars, alignVars, voteVars, lengthVars, windowVars, micVars>>

toneFrame == <<codecVars, encVars, decVars, gzVars, liveVars, versionVars, gridVars, recoverVars, alignVars, voteVars, lengthVars, windowVars, micVars>>

recoverFrame == <<codecVars, encVars, decVars, gzVars, liveVars, versionVars, gridVars, toneVars, alignVars, voteVars, lengthVars, windowVars, micVars>>

alignFrame == <<codecVars, encVars, decVars, gzVars, liveVars, versionVars, gridVars, toneVars, recoverVars, voteVars, lengthVars, windowVars, micVars>>

voteFrame == <<codecVars, encVars, decVars, gzVars, liveVars, versionVars, gridVars, toneVars, recoverVars, alignVars, lengthVars, windowVars, micVars>>

lengthFrame == <<codecVars, encVars, decVars, gzVars, liveVars, versionVars, gridVars, toneVars, recoverVars, alignVars, voteVars, windowVars, micVars>>

windowFrame == <<codecVars, encVars, decVars, gzVars, liveVars, versionVars, gridVars, toneVars, recoverVars, alignVars, voteVars, lengthVars, micVars>>

micFrame == <<codecVars, encVars, decVars, gzVars, liveVars, versionVars, gridVars, toneVars, recoverVars, alignVars, voteVars, lengthVars, windowVars>>

-----------------------------------------------------------------------------
(***************************************************************************)
(* Frequency plan and version table                                        *)
(***************************************************************************)

Versions == 1..5

\* bits per chunk: the encoder pads a column to a multiple of 6 and slices by 6
ChunkBits == 6

\* number of data-grid bins, getFrequencyConfig().bins
Bins == 64

\* getFrequencyConfig().dataStart and .step
DataStart == 22200

Step == 30

\* decodeCycle: matrixSize = 21 + (version - 1) * 4
MatrixSize(v) == 21 + (v - 1) * 4

\* Math.ceil(rows / 6)
CeilDiv(a, b) == (a + b - 1) \div b

ChunksPerCol(v) == CeilDiv(MatrixSize(v), ChunkBits)

\* getFrequencyConfig().markers.versionStart
VersionStart(v) == 21000 + (v - 1) * 200

\* a range check that never fires
neverOutOfRange(value) == FALSE

\* if (value < 0 || value >= config.bins) throw new Error(...)
chunkOutOfRange(value) == value < 0 \/ value >= Bins

\* AudioProcessor.getFrequencyForChunk: throws outside 0..63
getFrequencyForChunk(value) ==
    IF chunkOutOfRange(value) THEN "RangeError"
    ELSE DataStart + value * Step

-----------------------------------------------------------------------------
(***************************************************************************)
(* Packing a matrix into chunks: SoundQREncoder.convertMatrixToChunks      *)
(***************************************************************************)

RECURSIVE ParseBinaryLSB(_)
\* the other bit order of the repository (QRProcessor.processColumn packs the
\* first row of a group into bit 0): the slip the round trip must detect
ParseBinaryLSB(bits) ==
    IF Len(bits) = 0 THEN 0
    ELSE Head(bits) + 2 * ParseBinaryLSB(Tail(bits))

RECURSIVE ParseBinary(_)
\* parseInt(bits.join(''), 2): the first bit is the most significant one
ParseBinary(bits) ==
    IF Len(bits) = 0 THEN 0
    ELSE 2 * ParseBinary(SubSeq(bits, 1, Len(bits) - 1)) + bits[Len(bits)]

\* for (y = 0; y < size; y++) bits.push(matrix[y][x] ? 1 : 0)
ColumnBits(matrix, size, x) ==
    [i \in 1..size |-> IF matrix[i - 1][x] # 0 THEN 1 ELSE 0]

\* while (bits.length % 6 !== 0) bits.push(0)
PadColumn(bits) ==
    bits \o [i \in 1..((ChunkBits - (Len(bits) % ChunkBits)) % ChunkBits) |-> 0]

\* for (i = 0; i < bits.length; i += 6) chunks.push(parseInt(bits.slice(i, i+6)...))
ColumnChunks(bits) ==
    [k \in 1..(Len(bits) \div ChunkBits) |->
        ParseBinary(SubSeq(bits, (k - 1) * ChunkBits + 1, k * ChunkBits))]

RECURSIVE ChunksFrom(_, _, _)
ChunksFrom(matrix, size, x) ==
    IF x >= size THEN << >>
    ELSE ColumnChunks(PadColumn(ColumnBits(matrix, size, x)))
             \o ChunksFrom(matrix, size, x + 1)

\* size = matrix.length; columns left to right
convertMatrixToChunks(matrix, size) == ChunksFrom(matrix, size, 0)

-----------------------------------------------------------------------------
(***************************************************************************)
(* Demodulation: SoundQRDecoder.detectChunkValue and decodeCycle           *)
(* (Goertzel decoder).  A chunk slot is abstracted to the frequency of the *)
(* tone it holds; calculateFrequencyStrength of an ideal channel is 1 at   *)
(* that frequency and 0 at every other grid frequency.                     *)
(***************************************************************************)

IdealStrength(toneFreq, targetFreq) == IF toneFreq = targetFreq THEN 1 ELSE 0

RECURSIVE ArgMaxFrom(_, _, _, _)
\* for (val = 0; val < 64; val++) { if (energy > maxEnergy) {...} }
ArgMaxFrom(toneFreq, val, maxEnergy, bestValue) ==
    IF val >= Bins THEN bestValue
    ELSE LET energy == IdealStrength(toneFreq, DataStart + val * Step)
         IN  IF energy > maxEnergy
             THEN ArgMaxFrom(toneFreq, val + 1, energy, val)
             ELSE ArgMaxFrom(toneFreq, val + 1, maxEnergy, bestValue)

\* maxEnergy = -1, bestValue = 0
detectChunkValue(toneFreq) == ArgMaxFrom(toneFreq, 0, -1, 0)

RECURSIVE ToString2(_)
\* Number.prototype.toString(2): binary digits, no leading zeros
ToString2(n) ==
    IF n < 2 THEN <<n>> ELSE ToString2(n \div 2) \o <<n % 2>>

\* String.prototype.padStart(6, '0')
PadStart(s, width) ==
    IF Len(s) >= width THEN s ELSE [i \in 1..(width - Len(s)) |-> 0] \o s

RECURSIVE ColBitsFrom(_, _, _, _)
\* colBits += detectedVal.toString(2).padStart(6, '0') for each chunk slot
ColBitsFrom(slots, v, col, ch) ==
    IF ch >= ChunksPerCol(v) THEN << >>
    ELSE PadStart(ToString2(detectChunkValue(slots[col * ChunksPerCol(v) + ch + 1])),
                  ChunkBits)
             \o ColBitsFrom(slots, v, col, ch + 1)

\* the colBits string decodeCycle builds for each column
decodeCycleColBits(slots, v) ==
    [col \in 0..(MatrixSize(v) - 1) |-> ColBitsFrom(slots, v, col, 0)]

\* decodedMatrix[r][col] = parseInt(colBits[r]) for r < rows, r < colBits.length
decodeCycleMatrix(bitsOfCol, v) ==
    [r \in 0..(MatrixSize(v) - 1) |->
        [col \in 0..(MatrixSize(v) - 1) |->
            IF r < Len(bitsOfCol[col]) THEN bitsOfCol[col][r + 1] ELSE 0]]

-----------------------------------------------------------------------------
(***************************************************************************)
(* SpecCodec: the matrices the round trip is run on                        *)
(***************************************************************************)

\* MSB-first bit b (0..5) of a chunk value
BitOf(value, b) == (value \div (2 ^ (ChunkBits - 1 - b))) % 2

\* one dark module at (r, c) on a light matrix
CellMatrix(n, r, c) ==
    [y \in 0..(n - 1) |-> [x \in 0..(n - 1) |-> IF y = r /\ x = c THEN 1 ELSE 0]]

\* one light module at (r, c) on a dark matrix
HoleMatrix(n, r, c) ==
    [y \in 0..(n - 1) |-> [x \in 0..(n - 1) |-> IF y = r /\ x = c THEN 0 ELSE 1]]

\* a matrix whose column chunks run through the 64 chunk values, from w on
WordMatrix(n, w) ==
    [y \in 0..(n - 1) |-> [x \in 0..(n - 1) |->
        BitOf((w + 7 * x + (y \div ChunkBits)) % Bins, y % ChunkBits)]]

\* the rows and columns a single module is placed on: the first one, the two
\* sides of a chunk border, and the last one (in the padded chunk of a column)
Marks(n) == {0, ChunkBits - 1, ChunkBits, n - 1}

\* the first chunk value of the word matrices runs over 0..MaxWord
MaxWord == 3

TestMatrices(v) ==
    LET n == MatrixSize(v)
    IN  {CellMatrix(n, r, c) : r \in Marks(n), c \in Marks(n)}
        \cup {HoleMatrix(n, r, c) : r \in Marks(n), c \in Marks(n)}
        \cup {WordMatrix(n, w) : w \in 0..MaxWord}

VersionIdle ==
    /\ vOp = "idle"
    /\ vDurationMs = 0
    /\ vResult = << >>

GridIdle ==
    /\ gridPlan = "none"
    /\ gridValue = 0
    /\ gridFreq = 0
    /\ gridDetected = 0
    /\ gridPc = "idle"

ToneIdle ==
    /\ toneVariant = "none"
    /\ toneCarrier = << >>
    /\ toneAmplitude = 0
    /\ toneDurationMs = 0
    /\ toneBuffer = << >>
    /\ tonePc = "idle"

RecoverIdle ==
    /\ rcReceived = << >>
    /\ rcAvailable = 0
    /\ rcCycleLen = 0
    /\ rcOffset = << >>
    /\ rcColumns = << >>
    /\ rcMatrix = << >>
    /\ rcPc = "idle"

AlignIdle ==
    /\ alCenter = 0
    /\ alDataLen = 0
    /\ alMarkerAt = 0
    /\ alCoarse = {}
    /\ alFine = {}
    /\ alBest = 0
    /\ alPc = "idle"

VoteIdle ==
    /\ vtRms = 0
    /\ vtCorrelation = << >>
    /\ vtPower = << >>
    /\ vtCrossings = 0
    /\ vtBits = << >>
    /\ vtResult = "none"
    /\ vtPc = "idle"

LengthIdle ==
    /\ clRate = 0
    /\ clStarts = << >>
    /\ clEmitted = 0
    /\ clExpected = 0

WindowIdle ==
    /\ swRate = 0
    /\ swStart = 0
    /\ swLength = 0
    /\ swWindows = << >>
    /\ swPc = "idle"

MicIdle ==
    /\ sampleBuffer = 0
    /\ isProcessing = FALSE
    /\ realtimeDecodes = << >>
    /\ fullRecording = "idle"
    /\ micRecording = FALSE
    /\ recordedChunks = 0

MaxSessions == 2

Sessions == 1..MaxSessions

\* the component right after its first render
LiveIdle ==
    /\ mounted = TRUE
    /\ isRecording = FALSE
    /\ sessionsStarted = 0
    /\ startPc = [s \in Sessions |-> "none"]
    /\ streamOf = [s \in Sessions |-> "none"]
    /\ recorderOf = [s \in Sessions |-> "none"]
    /\ onstopQueued = {}
    /\ liveTimers = {}
    /\ analysisIntervalRef = 0
    /\ mediaRecorderRef = 0
    /\ audioChunks = 0
    /\ isAnalyzingRef = FALSE
    /\ passes = [s \in Sessions |-> 0]
    /\ succeeded = {}
    /\ lateStart = FALSE
    /\ lastTick = "none"

GzIdle ==
    /\ gMarkers = << >>
    /\ gCycles = << >>
    /\ gMaxFreq = 0
    /\ gIdx = 0
    /\ gOutcome = "none"
    /\ gPayload = "undefined"
    /\ gResult = << >>
    /\ gpc = "idle"

DecIdle ==
    /\ hitsPerCycle = << >>
    /\ cycleConf = << >>
    /\ intact = << >>
    /\ maxProcessingTime = 0
    /\ now = 0
    /\ validCycles = << >>
    /\ attemptIdx = 0
    /\ attempted = << >>
    /\ dOutcome = "none"
    /\ dResult = << >>
    /\ dpc = "idle"

EncIdle ==
    /\ sampleRate = 0
    /\ cycles = 0
    /\ carrier = << >>
    /\ embedAmplitude = 0
    /\ encodedParts = << >>
    /\ cycleIdx = 0
    /\ toneCalls = 0
    /\ encodedSignal = << >>
    /\ outBuffer = << >>
    /\ encOutcome = "none"
    /\ epc = "idle"

CodecInit ==
    /\ EncIdle
    /\ DecIdle
    /\ GzIdle
    /\ LiveIdle
    /\ VersionIdle
    /\ GridIdle
    /\ ToneIdle
    /\ RecoverIdle
    /\ AlignIdle
    /\ VoteIdle
    /\ LengthIdle
    /\ WindowIdle
    /\ MicIdle
    /\ version \in Versions
    /\ qrMatrix \in TestMatrices(version)
    /\ chunks = << >>
    /\ tones = << >>
    /\ colBits = << >>
    /\ decodedMatrix = << >>
    /\ cpc = "matrix"

\* encode: const chunks = this.convertMatrixToChunks(qrMatrix, version)
ConvertMatrix ==
    /\ cpc = "matrix"
    /\ chunks' = convertMatrixToChunks(qrMatrix, MatrixSize(version))
    /\ cpc' = "chunks"
    /\ UNCHANGED <<version, qrMatrix, tones, colBits, decodedMatrix>>
    /\ UNCHANGED codecFrame

\* encode: for (const chunkValue of chunks) generateTone(getFrequencyForChunk(..))
EmitDataTones ==
    /\ cpc = "chunks"
    /\ tones' = [i \in 1..Len(chunks) |-> getFrequencyForChunk(chunks[i])]
    /\ cpc' = "tones"
    /\ UNCHANGED <<version, qrMatrix, chunks, colBits, decodedMatrix>>
    /\ UNCHANGED codecFrame

\* decodeCycle over the chunk slots of one cycle, exactly aligned
DemodulateCycle ==
    /\ cpc = "tones"
    /\ colBits' = decodeCycleColBits(tones, version)
    /\ decodedMatrix' = decodeCycleMatrix(colBits', version)
    /\ cpc' = "decoded"
    /\ UNCHANGED <<version, qrMatrix, chunks, tones>>
    /\ UNCHANGED codecFrame

CodecNext == ConvertMatrix \/ EmitDataTones \/ DemodulateCycle

SpecCodec == CodecInit /\ [][CodecNext]_vars

\* C1: with ideal tone detection and exact alignment, the matrix decodeCycle
\* rebuilds from the chunks convertMatrixToChunks emitted equals the original
\* matrix, for every version 1..5.
C1_RoundTrip == cpc = "decoded" => decodedMatrix = qrMatrix

\* a version-5 matrix with a dark module in the padded last chunk of the last
\* column has gone through the whole pipeline
C1_Witness ==
    /\ cpc = "decoded"
    /\ version = 5
    /\ qrMatrix[36][36] = 1
    /\ qrMatrix[0][0] = 0
    /\ Len(chunks) = 37 * 7

-----------------------------------------------------------------------------
(***************************************************************************)
(* SoundQREncoder.encode (src/utils/soundQREncoder.js) with the            *)
(* AudioProcessor that has getFrequencyConfig.  A sample is an integer in  *)
(* 1/1000 of full scale.  The sinusoid of a tone is abstracted to its      *)
(* amplitude: every sample of a tone is the tone's amplitude, every sample *)
(* of the gap is 0, and a tone generated at a frequency that is not a      *)
(* number holds NaN in every sample.                                       *)
(***************************************************************************)

\* chunkDuration = 0.060, markerDuration = 0.100 and the 0.3 s gap, in ms
ChunkMs == 60

MarkerMs == 100

GapMs == 300

\* Math.max(peak * 0.1, 0.02): the factor as a divisor, the floor in 1/1000
PeakDivisor == 10

MinAmplitude == 20

\* the value that stands for NaN in a sample buffer
NaNSample == 0 - 1000000

\* the sample rate the buffers of SpecEncode are materialised at
ModelSampleRate == 20

\* options.cycles ranges over 1..MaxCycles
MaxCycles == 2

Max(a, b) == IF a >= b THEN a ELSE b

Abs(a) == IF a < 0 THEN 0 - a ELSE a

\* Math.floor(duration * sampleRate), the duration in ms
ToneLength(sr, ms) == (sr * ms) \div 1000

\* getFrequencyConfig().markers.end: an object keyed by version
EndMarkerTable == [v \in Versions |-> 21100 + (v - 1) * 200]

Number(x) == [type |-> "number", val |-> x]

\* config.markers.versionStart[version]: undefined outside 1..5
versionStartOf(v) ==
    IF v \in Versions THEN Number(VersionStart(v))
    ELSE [type |-> "undefined", val |-> 0]

\* config.markers.end, as encode passes it to generateTone
markersEnd == [type |-> "object", val |-> 0]

\* AudioProcessor.generateTone(frequency, duration, amplitude)
generateTone(role, frequency, ms, amplitude, sr) ==
    [role |-> role, freq |-> frequency, len |-> ToneLength(sr, ms),
     amp |-> amplitude]

\* new Float32Array(Math.floor(sampleRate * 0.3))
silencePart(sr) ==
    [role |-> "gap", freq |-> Number(0), len |-> ToneLength(sr, GapMs), amp |-> 0]

\* the value of every sample of a part
PartSample(part) ==
    IF part.role = "gap" THEN 0
    ELSE IF part.freq.type = "number" THEN part.amp
    ELSE NaNSample

\* a cycle loop that pushes the end marker before the data tones
CyclePartsEndFirst(v, chunkSeq, amplitude, sr) ==
    <<generateTone("start", versionStartOf(v), MarkerMs, amplitude, sr)>>
    \o <<generateTone("end", markersEnd, MarkerMs, amplitude, sr)>>
    \o [i \in 1..Len(chunkSeq) |->
           generateTone("data", Number(getFrequencyForChunk(chunkSeq[i])),
                        ChunkMs, amplitude, sr)]
    \o <<silencePart(sr)>>

\* the parts one pass of the cycle loop pushes
CycleParts(v, chunkSeq, amplitude, sr) ==
    <<generateTone("start", versionStartOf(v), MarkerMs, amplitude, sr)>>
    \o [i \in 1..Len(chunkSeq) |->
           generateTone("data", Number(getFrequencyForChunk(chunkSeq[i])),
                        ChunkMs, amplitude, sr)]
    \o <<generateTone("end", markersEnd, MarkerMs, amplitude, sr)>>
    \o <<silencePart(sr)>>

RECURSIVE MergeRange(_, _, _)
\* the samples of parts lo..hi, one after the other
MergeRange(parts, lo, hi) ==
    IF lo > hi THEN << >>
    ELSE IF lo = hi THEN [i \in 1..parts[lo].len |-> PartSample(parts[lo])]
    ELSE LET mid == (lo + hi) \div 2
         IN  MergeRange(parts, lo, mid) \o MergeRange(parts, mid + 1, hi)

\* encodedSignal.set(part, offset) for every part, offset += part.length
MergeParts(parts) == MergeRange(parts, 1, Len(parts))

\* peak = Math.max(peak, Math.abs(channelData[i])) over the channel, from 0
PeakOf(channelData) ==
    LET mags == {Abs(channelData[i]) : i \in 1..Len(channelData)} \cup {0}
    IN  CHOOSE p \in mags : \A q \in mags : p >= q

\* b + o in floating point: NaN absorbs
AddSamples(b, o) ==
    IF b = NaNSample \/ o = NaNSample THEN NaNSample ELSE b + o

\* the overlay is added to every channel of the base
mixBuffersAllChannels(base, overlay) ==
    LET length == Max(base.length, Len(overlay))
    IN  [numberOfChannels |-> base.numberOfChannels,
         length |-> length,
         data |-> [ch \in 0..(base.numberOfChannels - 1) |->
             [i \in 1..length |->
                 AddSamples(IF i <= base.length THEN base.data[ch][i] ELSE 0,
                            IF i <= Len(overlay) THEN overlay[i] ELSE 0)]]]

\* SoundQREncoder.mixBuffers(base, overlay)
mixBuffers(base, overlay) == mixBuffersAllChannels(base, overlay)

\* the samples one full cycle of version v takes
CycleSamples(v, sr) ==
    2 * ToneLength(sr, MarkerMs)
    + MatrixSize(v) * ChunksPerCol(v) * ToneLength(sr, ChunkMs)
    + ToneLength(sr, GapMs)

\* the carriers encode is run on: sample i of channel ch at a given level
CarrierData(level, ch, i) ==
    IF i % 2 = 0 THEN level ELSE 0 - (level \div (ch + 2))

CarrierOf(channels, length, level) ==
    [numberOfChannels |-> channels, length |-> length,
     data |-> [ch \in 0..(channels - 1) |->
                  [i \in 1..length |-> CarrierData(level, ch, i)]]]

CarrierLevels == {0, 100, 500}

\* one sample short of a cycle, exactly a cycle, longer than all the cycles
CarrierLengths(v, sr, n) ==
    {CycleSamples(v, sr) - 1, CycleSamples(v, sr), n * CycleSamples(v, sr) + 2}

\* the versions encode is called with: 1..5 and one on each side
EncodeVersions == 0..6

CodecIdle ==
    /\ tones = << >>
    /\ colBits = << >>
    /\ decodedMatrix = << >>
    /\ cpc = "idle"

EncInit ==
    /\ CodecIdle
    /\ DecIdle
    /\ GzIdle
    /\ LiveIdle
    /\ VersionIdle
    /\ GridIdle
    /\ ToneIdle
    /\ RecoverIdle
    /\ AlignIdle
    /\ VoteIdle
    /\ LengthIdle
    /\ WindowIdle
    /\ MicIdle
    /\ version \in EncodeVersions
    /\ qrMatrix = WordMatrix(MatrixSize(version), 0)
    /\ chunks = << >>
    /\ sampleRate = ModelSampleRate
    /\ cycles \in 1..MaxCycles
    /\ \E channels \in 1..2, level \in CarrierLevels :
         \E length \in CarrierLengths(version, sampleRate, cycles) :
             carrier = CarrierOf(channels, length, level)
    /\ embedAmplitude = 0
    /\ encodedParts = << >>
    /\ cycleIdx = 0
    /\ toneCalls = 0
    /\ encodedSignal = << >>
    /\ outBuffer = << >>
    /\ encOutcome = "none"
    /\ epc = "load"

\* loadAudioFile, the peak of channel 0 and embedAmplitude
EncMeasure ==
    /\ epc = "load"
    /\ embedAmplitude' =
           Max(PeakOf(carrier.data[0]) \div PeakDivisor, MinAmplitude)
    /\ epc' = "qr"
    /\ UNCHANGED <<version, qrMatrix, chunks, sampleRate, cycles, carrier,
                   encodedParts, cycleIdx, toneCalls, encodedSignal, outBuffer,
                   encOutcome>>
    /\ UNCHANGED encFrame

\* generateQR (getVersionSpec throws for an unknown version, and the catch
\* rethrows it as "Encoding failed") and convertMatrixToChunks
EncChunks ==
    /\ epc = "qr"
    /\ IF version \in Versions
       THEN /\ chunks' = convertMatrixToChunks(qrMatrix, MatrixSize(version))
            /\ epc' = "cycles"
            /\ encOutcome' = encOutcome
       ELSE /\ chunks' = chunks
            /\ epc' = "done"
            /\ encOutcome' = "Encoding failed: Unsupported QR version"
    /\ UNCHANGED <<version, qrMatrix, sampleRate, cycles, carrier, embedAmplitude,
                   encodedParts, cycleIdx, toneCalls, encodedSignal, outBuffer>>
    /\ UNCHANGED encFrame

\* one pass of for (c = 0; c < cycles; c++)
EncCycle ==
    /\ epc = "cycles"
    /\ cycleIdx < cycles
    /\ encodedParts' =
           encodedParts \o CycleParts(version, chunks, embedAmplitude, sampleRate)
    /\ toneCalls' = toneCalls + 2 + Len(chunks)
    /\ cycleIdx' = cycleIdx + 1
    /\ UNCHANGED <<version, qrMatrix, chunks, sampleRate, cycles, carrier,
                   embedAmplitude, encodedSignal, outBuffer, encOutcome, epc>>
    /\ UNCHANGED encFrame

\* the merge of the parts into encodedSignal
EncMerge ==
    /\ epc = "cycles"
    /\ cycleIdx >= cycles
    /\ encodedSignal' = MergeParts(encodedParts)
    /\ epc' = "merged"
    /\ UNCHANGED <<version, qrMatrix, chunks, sampleRate, cycles, carrier,
                   embedAmplitude, encodedParts, cycleIdx, toneCalls, outBuffer,
                   encOutcome>>
    /\ UNCHANGED encFrame

\* finalBuffer = this.mixBuffers(audioBuffer, encodedBuffer); return
EncMix ==
    /\ epc = "merged"
    /\ outBuffer' = mixBuffers(carrier, encodedSignal)
    /\ encOutcome' = "ok"
    /\ epc' = "done"
    /\ UNCHANGED <<version, qrMatrix, chunks, sampleRate, cycles, carrier,
                   embedAmplitude, encodedParts, cycleIdx, toneCalls, encodedSignal>>
    /\ UNCHANGED encFrame

EncNext == EncMeasure \/ EncChunks \/ EncCycle \/ EncMerge \/ EncMix

SpecEncode == EncInit /\ [][EncNext]_vars

\* the module at row r of column col, 0 below the matrix
ModuleAt(r, col) ==
    IF r < MatrixSize(version) /\ qrMatrix[r][col] # 0 THEN 1 ELSE 0

\* the value of the six modules from row 6j of column col, topmost bit first
ExpectedChunk(col, j) ==
    32 * ModuleAt(6 * j, col) + 16 * ModuleAt(6 * j + 1, col)
    + 8 * ModuleAt(6 * j + 2, col) + 4 * ModuleAt(6 * j + 3, col)
    + 2 * ModuleAt(6 * j + 4, col) + ModuleAt(6 * j + 5, col)

\* the parts of repetition c (from 0) are a start marker, the data tones of
\* the columns left to right and top to bottom, an end marker and a gap
CycleIsFramed(c) ==
    LET n == MatrixSize(version)
        k == ChunksPerCol(version)
        base == c * (n * k + 3)
    IN  /\ encodedParts[base + 1].role = "start"
        /\ encodedParts[base + 1].len = ToneLength(sampleRate, MarkerMs)
        /\ \A col \in 0..(n - 1) : \A j \in 0..(k - 1) :
               LET part == encodedParts[base + 1 + col * k + j + 1]
               IN  /\ part.role = "data"
                   /\ part.freq = Number(22200 + 30 * ExpectedChunk(col, j))
                   /\ part.len = ToneLength(sampleRate, ChunkMs)
        /\ encodedParts[base + n * k + 2].role = "end"
        /\ encodedParts[base + n * k + 2].len = ToneLength(sampleRate, MarkerMs)
        /\ encodedParts[base + n * k + 3].role = "gap"
        /\ encodedParts[base + n * k + 3].len = ToneLength(sampleRate, GapMs)

CarrierTooShort ==
    /\ epc # "idle"
    /\ version \in Versions
    /\ carrier.length < CycleSamples(version, sampleRate)

\* C4: encode with a carrier shorter than one full cycle of the requested
\* version fails with an insufficient-duration error and synthesises no tone
\* before it rejects.
C4_DurationGuard ==
    CarrierTooShort =>
        /\ toneCalls = 0
        /\ epc = "done" => encOutcome = "InsufficientCarrierDuration"

\* C5: for a carrier with more than one channel the control signal is added
\* to channel 0 only: every output channel ch >= 1 equals the carrier's
\* channel ch sample for sample, and is zero beyond the carrier's length.
C5_ChannelZeroOnly ==
    (epc = "done" /\ encOutcome = "ok" /\ carrier.numberOfChannels > 1) =>
        \A ch \in 1..(carrier.numberOfChannels - 1) :
            \A i \in 1..outBuffer.length :
                outBuffer.data[ch][i] =
                    IF i <= carrier.length THEN carrier.data[ch][i] ELSE 0


(***************************************************************************)
(* SoundQRDecoder.decode of src/utils/soundQRDecoder.js.                   *)
(*                                                                         *)
(* The recording holds EmbeddedCycles repetitions of one version-1 cycle.  *)
(* Around the start marker of each repetition up to MaxHitsPerCycle        *)
(* overlapping scan windows pass the marker threshold; for each of them    *)
(* analyzeCycleExtensive reports the confidence of that repetition.        *)
(* Confidences are counted in 1/10000.  A candidate decodes to a text      *)
(* exactly when the repetition it lies in is intact.  Time is counted in   *)
(* ticks; every awaited phase takes between 0 and MaxPhaseCost ticks.      *)
(***************************************************************************)
EmbeddedCycles == 3

MaxHitsPerCycle == 2

MaxConfGrade == 2

MaxPhaseCost == 2

MaxEmergencyHits == 4

\* cycleResult.confidence > 0.001
ConfAccept == 10

\* c.confidence > 0.0001
ConfFilter == 1

\* filteredCycles.slice(0, 5)
TopCandidates == 5

\* validCycles.slice(0, 3) of emergencyDetection
EmergencyCandidates == 3

\* Math.min(validCycles.length, 3)
AttemptLimit == 3

Min(a, b) == IF a <= b THEN a ELSE b

Slice(seq, n) == SubSeq(seq, 1, Min(Len(seq), n))

\* the repetition a scan window lies in, and its place among that
\* repetition's windows
CycleOfWindow(w) == ((w - 1) \div MaxHitsPerCycle) + 1

PlaceOfWindow(w) == ((w - 1) % MaxHitsPerCycle) + 1

\* the scan loop: a window whose start marker passes and whose analysis
\* reports a confidence above 0.001 pushes one candidate
RECURSIVE ScanFrom(_, _, _)
ScanFrom(w, hits, conf) ==
    IF w > EmbeddedCycles * MaxHitsPerCycle THEN << >>
    ELSE LET cyc == CycleOfWindow(w)
             pushed == /\ PlaceOfWindow(w) <= hits[cyc]
                       /\ conf[cyc] > ConfAccept
         IN  (IF pushed
              THEN << [version |-> 1, startSample |-> w, cycle |-> cyc,
                       confidence |-> conf[cyc]] >>
              ELSE << >>) \o ScanFrom(w + 1, hits, conf)

\* validCycles.sort((a, b) => b.confidence - a.confidence): stable, descending
RECURSIVE InsertByConfidence(_, _)
InsertByConfidence(c, sorted) ==
    IF sorted = << >> THEN << c >>
    ELSE IF Head(sorted).confidence >= c.confidence
         THEN << Head(sorted) >> \o InsertByConfidence(c, Tail(sorted))
         ELSE << c >> \o sorted

RECURSIVE SortByConfidence(_)
SortByConfidence(seq) ==
    IF seq = << >> THEN << >>
    ELSE InsertByConfidence(seq[Len(seq)],
                            SortByConfidence(SubSeq(seq, 1, Len(seq) - 1)))

AboveFilter(c) == c.confidence > ConfFilter

\* emergencyDetection: version 1 only, the first windows of the recording,
\* at most three candidates; found is the number of windows that pass
emergencyDetection(found) ==
    Slice([k \in 1..found |->
              [version |-> 1, startSample |-> k, cycle |-> 1,
               confidence |-> ConfFilter]],
          EmergencyCandidates)

detectValidCycles(hits, conf, found) ==
    LET filteredCycles ==
            SelectSeq(SortByConfidence(ScanFrom(1, hits, conf)), AboveFilter)
    IN  IF Len(filteredCycles) = 0
        THEN emergencyDetection(found)
        ELSE Slice(filteredCycles, TopCandidates)

\* decodeCycle catches everything and returns the text or null (0 here);
\* the text is tagged with the repetition it was read from
decodeCycle(c) == IF intact[c.cycle] THEN c.cycle ELSE 0

ErrTimeout == "Decoding failed: Processing timeout - operation took too long"

ErrNoCycles == "Decoding failed: No valid QR cycles detected"

ErrAllFailed == "Decoding failed: All cycles failed decoding"

DecInit ==
    /\ CodecIdle
    /\ EncIdle
    /\ GzIdle
    /\ LiveIdle
    /\ VersionIdle
    /\ GridIdle
    /\ ToneIdle
    /\ RecoverIdle
    /\ AlignIdle
    /\ VoteIdle
    /\ LengthIdle
    /\ WindowIdle
    /\ MicIdle
    /\ version = 1
    /\ qrMatrix = << >>
    /\ chunks = << >>
    /\ hitsPerCycle \in [1..EmbeddedCycles -> 0..MaxHitsPerCycle]
    /\ cycleConf \in [1..EmbeddedCycles -> ConfAccept..(ConfAccept + MaxConfGrade)]
    /\ intact \in [1..EmbeddedCycles -> BOOLEAN]
    /\ maxProcessingTime \in 1..(MaxPhaseCost - 1)
    /\ now = 0
    /\ validCycles = << >>
    /\ attemptIdx = 0
    /\ attempted = << >>
    /\ dOutcome = "none"
    /\ dResult = << >>
    /\ dpc = "scan"


\* detectValidCycles is awaited, then the single budget check and the
\* empty-list check run before the candidate loop is entered
DecScan ==
    /\ dpc = "scan"
    /\ \E cost \in 0..MaxPhaseCost, found \in 0..MaxEmergencyHits :
         LET found_cycles == detectValidCycles(hitsPerCycle, cycleConf, found)
             elapsed == now + cost
         IN  /\ validCycles' = found_cycles
             /\ now' = elapsed
             /\ IF elapsed > maxProcessingTime
                THEN /\ dOutcome' = ErrTimeout
                     /\ dpc' = "done"
                ELSE IF Len(found_cycles) = 0
                     THEN /\ dOutcome' = ErrNoCycles
                          /\ dpc' = "done"
                     ELSE /\ dOutcome' = dOutcome
                          /\ dpc' = "loop"
    /\ UNCHANGED <<hitsPerCycle, cycleConf, intact, maxProcessingTime,
                   attemptIdx, attempted, dResult>>
    /\ UNCHANGED decFrame

\* one turn of the candidate loop: decodeCycle is awaited; a text returns,
\* null moves on to the next index, and leaving the loop throws
DecAttempt ==
    /\ dpc = "loop"
    /\ attemptIdx < Min(Len(validCycles), AttemptLimit)
    /\ \E cost \in 0..MaxPhaseCost :
         LET cycle == validCycles[attemptIdx + 1]
             decodedData == decodeCycle(cycle)
         IN  /\ attempted' = Append(attempted, [index |-> attemptIdx + 1,
                                                cycle |-> cycle.cycle,
                                                startedAt |-> now])
             /\ now' = now + cost
             /\ IF decodedData # 0
                THEN /\ dResult' = [data |-> decodedData,
                                    version |-> cycle.version,
                                    confidence |-> cycle.confidence,
                                    cyclesFound |-> Len(validCycles)]
                     /\ dOutcome' = "ok"
                     /\ dpc' = "done"
                     /\ attemptIdx' = attemptIdx
                ELSE /\ dResult' = dResult
                     /\ attemptIdx' = attemptIdx + 1
                     /\ IF attemptIdx + 1 < Min(Len(validCycles), AttemptLimit)
                        THEN /\ dOutcome' = dOutcome
                             /\ dpc' = dpc
                        ELSE /\ dOutcome' = ErrAllFailed
                             /\ dpc' = "done"
    /\ UNCHANGED <<hitsPerCycle, cycleConf, intact, maxProcessingTime, validCycles>>
    /\ UNCHANGED decFrame

DecNext == DecScan \/ DecAttempt

SpecDecode == DecInit /\ [][DecNext]_vars

WasAttempted(k) == \E j \in 1..Len(attempted) : attempted[j].index = k

\* C2: decode reports that decoding failed only after every candidate the
\* scan returned has been attempted and has failed; no returned candidate is
\* left untried when the failure surfaces.
C2_AllCandidatesTried ==
    (dpc = "done" /\ dOutcome = ErrAllFailed) =>
        \A k \in 1..Len(validCycles) : WasAttempted(k)

EveryCycleDetected ==
    \A c \in 1..EmbeddedCycles : hitsPerCycle[c] >= 1 /\ cycleConf[c] > ConfAccept

\* C3: with three repetitions embedded and detected, repetitions 1 and 2
\* yielding matrices the QR decode rejects and repetition 3 intact, a decode
\* that does not time out succeeds with the text of repetition 3.
C3_Redundancy ==
    (/\ dpc = "done"
     /\ dOutcome # ErrTimeout
     /\ EveryCycleDetected
     /\ ~intact[1] /\ ~intact[2] /\ intact[3]) =>
        /\ dOutcome = "ok"
        /\ dResult.data = 3

\* C6: a scan that ends over the budget ends decode with the timeout
\* failure, and the budget is checked again after each candidate's decode
\* phase, so no candidate is started once the elapsed time exceeds it.
C6_BudgetRechecked ==
    /\ (dpc = "done" /\ attempted = << >> /\ now > maxProcessingTime) =>
           dOutcome = ErrTimeout
    /\ \A j \in 1..Len(attempted) : attempted[j].startedAt <= maxProcessingTime


(***************************************************************************)
(* SoundQRDecoder.decode of the Goertzel decoder.                          *)
(*                                                                         *)
(* The recording is a row of NumWindows scan positions, one per step of    *)
(* the detailed scan (50 ms).  It is silent except for one or two          *)
(* positions at which calculateFrequencyStrength reports energy at the     *)
(* start-marker frequency of some version.  Energies are counted in        *)
(* 1/10000, times in scan steps.                                           *)
(***************************************************************************)
NumWindows == 18

\* scanStep = floor(sr * 0.5) against step = floor(floor(sr * 0.1) / 2)
QuickRatio == 10

\* e1 > 0.001
QuickThreshold == 10

\* config?.isLive ? 0.002 : 0.005
LiveThreshold == 20

FileThreshold == 50

\* Math.abs(c.startTime - time) < 0.8, in scan steps
Separation == 16

\* the object getFrequencyConfig returns has no isLive field
configIsLive == FALSE

MarkerVersions == {1, 2}

EnergyLevels ==
    {QuickThreshold, QuickThreshold + 1, FileThreshold, FileThreshold + 1,
     2 * FileThreshold}

\* the strength at the version's end-marker frequency where the cycle that
\* starts at the event would end: nothing, or a clear end marker
EndLevels == {0, FileThreshold + 1}

MarkerEvents ==
    [window : 0..(NumWindows - 1), version : MarkerVersions, energy : EnergyLevels,
     endEnergy : EndLevels]

Recordings ==
    {<< >>} \cup {<<a>> : a \in MarkerEvents}
            \cup {pair \in MarkerEvents \X MarkerEvents :
                         pair[2].window > pair[1].window}

\* calculateFrequencyStrength(window w, versionStart[v])
MarkerEnergy(rec, w, v) ==
    IF \E k \in 1..Len(rec) : rec[k].window = w /\ rec[k].version = v
    THEN (CHOOSE e \in {rec[k].energy : k \in {j \in 1..Len(rec) :
                            rec[j].window = w /\ rec[j].version = v}} : TRUE)
    ELSE 0

\* if (e1 > globalMaxEnergy) globalMaxEnergy = e1
maxEnergyStep(e1, acc) == IF e1 > acc THEN e1 ELSE acc

\* the step of a scan that would report the largest strength instead
maxStrengthStep(e1, acc) == maxEnergyStep(e1, acc)

\* if (e1 > 0.001) maxFreqFound = Math.max(maxFreqFound, versionStart[1])
maxFreqStep(e1, acc) == IF e1 > QuickThreshold THEN Max(acc, VersionStart(1)) ELSE acc

\* the quick noise floor scan, from position i on
RECURSIVE QuickScan(_, _, _)
QuickScan(rec, i, acc) ==
    IF i >= NumWindows THEN acc
    ELSE LET e1 == MarkerEnergy(rec, i, 1)
         IN  QuickScan(rec, i + QuickRatio,
                       [globalMaxEnergy |-> maxEnergyStep(e1, acc.globalMaxEnergy),
                        maxFreqFound |-> maxFreqStep(e1, acc.maxFreqFound)])

threshold == IF configIsLive THEN LiveThreshold ELSE FileThreshold

\* a scan that never finds an existing candidate near a window
neverTooClose(found, time) == FALSE

\* cycles.some(c => Math.abs(c.startTime - time) < 0.8)
TooClose(found, time) ==
    \E k \in 1..Len(found) : Abs(found[k].startTime - time) < Separation

\* the body of the version loop for window i and version v
ProbeVersion(rec, i, v, found) ==
    LET energy == MarkerEnergy(rec, i, v)
    IN  IF energy > threshold /\ ~TooClose(found, i)
        THEN Append(found, [version |-> v, startTime |-> i, confidence |-> energy])
        ELSE found

\* for (let v = 1; v <= 5; v++)
ProbeWindow(rec, i, found) ==
    ProbeVersion(rec, i, 5,
        ProbeVersion(rec, i, 4,
            ProbeVersion(rec, i, 3,
                ProbeVersion(rec, i, 2,
                    ProbeVersion(rec, i, 1, found)))))

\* the detailed scan over the windows 0..i; the candidates of the earlier
\* windows are computed before window i is probed
RECURSIVE DetailedScan(_, _)
DetailedScan(rec, i) ==
    IF i < 0 THEN << >>
    ELSE LET found == DetailedScan(rec, i - 1)
         IN  IF Len(found) >= 0 THEN ProbeWindow(rec, i, found) ELSE found

gzDetectValidCycles(rec) ==
    [cycles |-> DetailedScan(rec, NumWindows - 1),
     maxFreq |-> QuickScan(rec, 0, [globalMaxEnergy |-> 0, maxFreqFound |-> 0]).maxFreqFound]

ErrNoSoundQR == "No valid Sound-QR cycles detected."

ErrCyclesFailed == "Cycles found but decoding failed."

GzInit ==
    /\ CodecIdle
    /\ EncIdle
    /\ DecIdle
    /\ LiveIdle
    /\ VersionIdle
    /\ GridIdle
    /\ ToneIdle
    /\ RecoverIdle
    /\ AlignIdle
    /\ VoteIdle
    /\ LengthIdle
    /\ WindowIdle
    /\ MicIdle
    /\ version = 1
    /\ qrMatrix = << >>
    /\ chunks = << >>
    /\ gMarkers \in Recordings
    /\ gCycles = << >>
    /\ gMaxFreq = 0
    /\ gIdx = 0
    /\ gOutcome = "none"
    /\ gPayload = "undefined"
    /\ gResult = << >>
    /\ gpc = "scan"

\* detectValidCycles is awaited and the empty-list check follows
GzScan ==
    /\ gpc = "scan"
    /\ LET detectionResult == gzDetectValidCycles(gMarkers)
       IN  /\ gCycles' = detectionResult.cycles
           /\ gMaxFreq' = detectionResult.maxFreq
           /\ IF Len(detectionResult.cycles) = 0
              THEN /\ gOutcome' = ErrNoSoundQR
                   /\ gPayload' = detectionResult.maxFreq
                   /\ gpc' = "done"
              ELSE /\ gOutcome' = gOutcome
                   /\ gPayload' = gPayload
                   /\ gpc' = "loop"
    /\ UNCHANGED <<gMarkers, gIdx, gResult>>
    /\ UNCHANGED gzFrame

\* one turn of the for-of loop: alignment, then the awaited decodeCycle,
\* whose result for this recording is text (decoded) or null
GzAttempt ==
    /\ gpc = "loop"
    /\ gIdx < Len(gCycles)
    /\ \E decoded \in BOOLEAN :
         LET cycle == gCycles[gIdx + 1]
         IN  IF decoded
             THEN /\ gResult' = [version |-> cycle.version,
                                 cyclesFound |-> Len(gCycles)]
                  /\ gOutcome' = "ok"
                  /\ gpc' = "done"
                  /\ gIdx' = gIdx
             ELSE /\ gResult' = gResult
                  /\ gIdx' = gIdx + 1
                  /\ IF gIdx + 1 < Len(gCycles)
                     THEN /\ gOutcome' = gOutcome
                          /\ gpc' = gpc
                     ELSE /\ gOutcome' = ErrCyclesFailed
                          /\ gpc' = "done"
    /\ UNCHANGED <<gMarkers, gCycles, gMaxFreq, gPayload>>
    /\ UNCHANGED gzFrame

GzNext == GzScan \/ GzAttempt

SpecGoertzel == GzInit /\ [][GzNext]_vars

NoCycleFailure == gpc = "done" /\ gOutcome = ErrNoSoundQR

QuickPositions == {i \in 0..(NumWindows - 1) : i % QuickRatio = 0}

\* the largest strength at any start-marker frequency over all scanned windows
MaxMarkerStrength ==
    LET seen == {MarkerEnergy(gMarkers, w, v) : w \in 0..(NumWindows - 1), v \in 1..5}
    IN  CHOOSE m \in seen : \A x \in seen : x <= m

\* the candidates decodeCycle was called on
AttemptedCycles ==
    {gCycles[k] : k \in {j \in 1..Len(gCycles) :
                            j <= gIdx \/ (gOutcome = "ok" /\ j = gIdx + 1)}}

\* the recording holds, for the start marker the candidate was found at, an
\* end marker of the same version at the end of the cycle
HasMatchingEnd(cycle) ==
    \E k \in 1..Len(gMarkers) :
        /\ gMarkers[k].window = cycle.startTime
        /\ gMarkers[k].version = cycle.version
        /\ gMarkers[k].endEnergy > threshold

\* C13: a candidate is decoded only if the start marker it was found at is
\* followed by an end marker of the same version at the expected position.
C13_MarkerPair == \A cycle \in AttemptedCycles : HasMatchingEnd(cycle)

MinChunks == 4

MaxChunks == 31

MaxPasses == 2

\* the skip test of the interval callback without the busy flag
TickSkipsUnguarded(busy, n) == n < MinChunks

\* if (isAnalyzingRef.current || audioChunksRef.current.length < 4) return
TickSkips(busy, n) == busy \/ n < MinChunks

RECURSIVE PassesUpTo(_)
PassesUpTo(n) == IF n = 0 THEN 0 ELSE passes[n] + PassesUpTo(n - 1)

\* the analysis passes in flight
TotalPasses == PassesUpTo(MaxSessions)

\* stopAnalysis(): clearInterval(analysisIntervalRef.current), then null
TimersAfterStopAnalysis == liveTimers \ {analysisIntervalRef}

\* the click on "Record Audio": startRecording up to await getUserMedia
StartRecording ==
    /\ mounted
    /\ ~isRecording
    /\ sessionsStarted < MaxSessions
    /\ sessionsStarted' = sessionsStarted + 1
    /\ liveTimers' = TimersAfterStopAnalysis
    /\ analysisIntervalRef' = 0
    /\ startPc' = [startPc EXCEPT ![sessionsStarted + 1] = "awaiting"]
    /\ UNCHANGED <<mounted, isRecording, streamOf, recorderOf, onstopQueued,
                   mediaRecorderRef, audioChunks, isAnalyzingRef, passes,
                   succeeded, lateStart, lastTick>>
    /\ UNCHANGED liveFrame

\* getUserMedia resolved: the rest of startRecording; new MediaRecorder or
\* start may throw, which the catch turns into an error message
MediaGranted ==
    \E s \in Sessions, recorderOk \in BOOLEAN :
        /\ startPc[s] = "awaiting"
        /\ streamOf' = [streamOf EXCEPT ![s] = "open"]
        /\ IF recorderOk
           THEN /\ mediaRecorderRef' = s
                /\ audioChunks' = 0
                /\ recorderOf' = [recorderOf EXCEPT ![s] = "recording"]
                /\ isRecording' = IF mounted THEN TRUE ELSE isRecording
                /\ analysisIntervalRef' = s
                /\ liveTimers' = liveTimers \cup {s}
                /\ startPc' = [startPc EXCEPT ![s] = "running"]
           ELSE /\ startPc' = [startPc EXCEPT ![s] = "failed"]
                /\ UNCHANGED <<mediaRecorderRef, audioChunks, recorderOf,
                               isRecording, analysisIntervalRef, liveTimers>>
        /\ UNCHANGED <<mounted, sessionsStarted, onstopQueued, isAnalyzingRef,
                       passes, succeeded, lateStart, lastTick>>
        /\ UNCHANGED liveFrame

\* getUserMedia rejected: the catch of startRecording
MediaDenied ==
    \E s \in Sessions :
        /\ startPc[s] = "awaiting"
        /\ startPc' = [startPc EXCEPT ![s] = "failed"]
        /\ UNCHANGED <<mounted, isRecording, sessionsStarted, streamOf, recorderOf,
                       onstopQueued, liveTimers, analysisIntervalRef,
                       mediaRecorderRef, audioChunks, isAnalyzingRef, passes,
                       succeeded, lateStart, lastTick>>
        /\ UNCHANGED liveFrame

\* mediaRecorder.ondataavailable with a non-empty blob
DataAvailable ==
    \E s \in Sessions :
        /\ recorderOf[s] = "recording"
        /\ audioChunks < MaxChunks
        /\ audioChunks' = audioChunks + 1
        /\ UNCHANGED <<mounted, isRecording, sessionsStarted, startPc, streamOf,
                       recorderOf, onstopQueued, liveTimers, analysisIntervalRef,
                       mediaRecorderRef, isAnalyzingRef, passes, succeeded,
                       lateStart, lastTick>>
        /\ UNCHANGED liveFrame

\* a tick of a live interval timer: the callback up to its first await
TimerTick ==
    \E t \in liveTimers :
        /\ IF TickSkips(isAnalyzingRef, audioChunks)
           THEN /\ lastTick' = IF isAnalyzingRef THEN "dropped busy"
                                                ELSE "dropped short"
                /\ UNCHANGED <<isAnalyzingRef, passes, lateStart>>
           ELSE /\ TotalPasses < MaxPasses
                /\ isAnalyzingRef' = TRUE
                /\ passes' = [passes EXCEPT ![t] = @ + 1]
                /\ lateStart' = (lateStart \/ t \in succeeded)
                /\ lastTick' = "started"
        /\ UNCHANGED <<mounted, isRecording, sessionsStarted, startPc, streamOf,
                       recorderOf, onstopQueued, liveTimers, analysisIntervalRef,
                       mediaRecorderRef, audioChunks, succeeded>>
        /\ UNCHANGED liveFrame

\* the rest of an analysis pass: decode settles; on a result the pass calls
\* mediaRecorder.stop(), which queues the stop event (and throws into the
\* pass's catch when the recorder is already inactive); finally clears the flag
PassFinish ==
    \E t \in Sessions, found \in BOOLEAN :
        /\ passes[t] > 0
        /\ IF found
           THEN /\ succeeded' = succeeded \cup {t}
                /\ IF recorderOf[t] = "recording"
                   THEN /\ recorderOf' = [recorderOf EXCEPT ![t] = "inactive"]
                        /\ onstopQueued' = onstopQueued \cup {t}
                   ELSE UNCHANGED <<recorderOf, onstopQueued>>
           ELSE UNCHANGED <<succeeded, recorderOf, onstopQueued>>
        /\ isAnalyzingRef' = FALSE
        /\ passes' = [passes EXCEPT ![t] = @ - 1]
        /\ UNCHANGED <<mounted, isRecording, sessionsStarted, startPc, streamOf,
                       liveTimers, analysisIntervalRef, mediaRecorderRef,
                       audioChunks, lateStart, lastTick>>
        /\ UNCHANGED liveFrame

\* mediaRecorder.onstop: stopAnalysis, stop the tracks, setIsRecording(false)
OnStop ==
    \E s \in onstopQueued :
        /\ onstopQueued' = onstopQueued \ {s}
        /\ liveTimers' = TimersAfterStopAnalysis
        /\ analysisIntervalRef' = 0
        /\ streamOf' = [streamOf EXCEPT ![s] = "stopped"]
        /\ isRecording' = FALSE
        /\ UNCHANGED <<mounted, sessionsStarted, startPc, recorderOf,
                       mediaRecorderRef, audioChunks, isAnalyzingRef, passes,
                       succeeded, lateStart, lastTick>>
        /\ UNCHANGED liveFrame

\* the click on "Stop Recording": stopRecording
StopRecording ==
    /\ mounted
    /\ isRecording
    /\ mediaRecorderRef # 0
    /\ liveTimers' = TimersAfterStopAnalysis
    /\ analysisIntervalRef' = 0
    /\ IF recorderOf[mediaRecorderRef] = "recording"
       THEN /\ recorderOf' = [recorderOf EXCEPT ![mediaRecorderRef] = "inactive"]
            /\ onstopQueued' = onstopQueued \cup {mediaRecorderRef}
       ELSE UNCHANGED <<recorderOf, onstopQueued>>
    /\ UNCHANGED <<mounted, isRecording, sessionsStarted, startPc, streamOf,
                   mediaRecorderRef, audioChunks, isAnalyzingRef, passes,
                   succeeded, lateStart, lastTick>>
    /\ UNCHANGED liveFrame

\* the cleanup of the mount effect: stopAnalysis()
Unmount ==
    /\ mounted
    /\ mounted' = FALSE
    /\ liveTimers' = TimersAfterStopAnalysis
    /\ analysisIntervalRef' = 0
    /\ UNCHANGED <<isRecording, sessionsStarted, startPc, streamOf, recorderOf,
                   onstopQueued, mediaRecorderRef, audioChunks, isAnalyzingRef,
                   passes, succeeded, lateStart, lastTick>>
    /\ UNCHANGED liveFrame

LiveInit ==
    /\ CodecIdle
    /\ EncIdle
    /\ DecIdle
    /\ GzIdle
    /\ LiveIdle
    /\ VersionIdle
    /\ GridIdle
    /\ ToneIdle
    /\ RecoverIdle
    /\ AlignIdle
    /\ VoteIdle
    /\ LengthIdle
    /\ WindowIdle
    /\ MicIdle
    /\ version = 1
    /\ qrMatrix = << >>
    /\ chunks = << >>

LiveNext ==
    \/ StartRecording
    \/ MediaGranted
    \/ MediaDenied
    \/ DataAvailable
    \/ TimerTick
    \/ PassFinish
    \/ OnStop
    \/ StopRecording
    \/ Unmount

SpecLive == LiveInit /\ [][LiveNext]_vars

\* C7: at most one analysis pass is in flight at any time, and the
\* in-progress flag is set exactly while one is: a tick that finds a pass
\* running starts none, and every exit of a pass clears the flag.
C7_AtMostOnePass ==
    /\ TotalPasses <= 1
    /\ isAnalyzingRef <=> (TotalPasses = 1)

\* a tick fired with enough audio while a pass was running, and was dropped
C7_Witness ==
    /\ lastTick = "dropped busy"
    /\ TotalPasses = 1
    /\ audioChunks >= MinChunks

\* C8: once a pass of a listening session has obtained a decode result, the
\* session's timer starts no further pass.
C8_SuccessCancelsScanning == ~lateStart

\* nothing is queued or in flight that could still release resources
Quiescent ==
    /\ onstopQueued = {}
    /\ TotalPasses = 0
    /\ \A s \in Sessions : startPc[s] # "awaiting"

\* C9: once live listening has been left (the component is unmounted, or it
\* is idle with no recording) and nothing is pending, no interval timer is
\* live and no capture stream is open.
C9_ResourcesReleased ==
    ((~mounted \/ ~isRecording) /\ Quiescent) =>
        /\ liveTimers = {}
        /\ \A s \in Sessions : streamOf[s] # "open"


(***************************************************************************)
(* Version parameter lookups: QRProcessor.getVersionSpec and               *)
(* getCycleTiming, and the sizes decodeCycle of the Goertzel decoder       *)
(* computes, each called once with a version from inside and outside 1..5. *)
(* Times are in milliseconds.                                              *)
(***************************************************************************)
ProbeMargin == 6

VersionInputs == (1 - ProbeMargin)..(5 + ProbeMargin)

\* specs[version].capacity
Capacity(v) == CASE v = 1 -> 25 [] v = 2 -> 47 [] v = 3 -> 77 [] v = 4 -> 114
                 [] OTHER -> 154

ErrUnsupported == "Unsupported QR version"

ErrRange == "RangeError: Invalid array length"

\* getVersionSpec: the table has the keys 1..5, any other key throws
getVersionSpec(v) ==
    IF v \in Versions
    THEN [kind |-> "spec", size |-> MatrixSize(v), capacity |-> Capacity(v),
          chunkSize |-> ChunkBits]
    ELSE [kind |-> "error", message |-> ErrUnsupported]

\* cols * chunksPerCol * 60
CycleDataMs(v) == MatrixSize(v) * ChunksPerCol(v) * ChunkMs

\* a timing whose overhead is 300 ms, as in the getCycleTiming of the second
\* QRProcessor of qrUtils.js
getCycleTimingShort(v) ==
    [kind |-> "timing", chunkDuration |-> ChunkMs,
     totalTime |-> CycleDataMs(v) + GapMs]

\* getCycleTiming: arithmetic on the version, no table and no test
getCycleTiming(v) ==
    [kind |-> "timing", chunkDuration |-> ChunkMs,
     totalTime |-> CycleDataMs(v) + MarkerMs + MarkerMs + GapMs]

\* currentTime = cycle.startTime + markerDuration + 0.005
AlignPadMs == 5

\* decodeCycle up to the column loop, for a candidate at startTime 0:
\* Array(rows) throws for a negative length, the duration guard returns
\* null, otherwise a rows x cols matrix is filled and handed on
decodeCycleSizes(v, durationMs) ==
    IF MatrixSize(v) < 0
    THEN [kind |-> "error", message |-> ErrRange]
    ELSE IF MarkerMs + AlignPadMs + CycleDataMs(v) > durationMs
         THEN [kind |-> "null"]
         ELSE [kind |-> "matrix", rows |-> MatrixSize(v), cols |-> MatrixSize(v),
               chunksPerCol |-> ChunksPerCol(v)]

DurationInputs == {0, MarkerMs + AlignPadMs + CycleDataMs(5 + ProbeMargin)}

VersionInit ==
    /\ CodecIdle
    /\ EncIdle
    /\ DecIdle
    /\ GzIdle
    /\ LiveIdle
    /\ GridIdle
    /\ ToneIdle
    /\ RecoverIdle
    /\ AlignIdle
    /\ VoteIdle
    /\ LengthIdle
    /\ WindowIdle
    /\ MicIdle
    /\ version \in VersionInputs
    /\ qrMatrix = << >>
    /\ chunks = << >>
    /\ vOp = "none"
    /\ vDurationMs \in DurationInputs
    /\ vResult = << >>

CallGetVersionSpec ==
    /\ vOp = "none"
    /\ vOp' = "getVersionSpec"
    /\ vResult' = getVersionSpec(version)
    /\ UNCHANGED vDurationMs
    /\ UNCHANGED versionFrame

CallGetCycleTiming ==
    /\ vOp = "none"
    /\ vOp' = "getCycleTiming"
    /\ vResult' = getCycleTiming(version)
    /\ UNCHANGED vDurationMs
    /\ UNCHANGED versionFrame

CallDecodeCycle ==
    /\ vOp = "none"
    /\ vOp' = "decodeCycle"
    /\ vResult' = decodeCycleSizes(version, vDurationMs)
    /\ UNCHANGED vDurationMs
    /\ UNCHANGED versionFrame

VersionNext == CallGetVersionSpec \/ CallGetCycleTiming \/ CallDecodeCycle

SpecVersion == VersionInit /\ [][VersionNext]_vars

\* C11: every lookup called with a version outside 1..5 ends in the
\* unsupported-version error: it returns no version parameters, no timing
\* and no matrix.
C11_UnsupportedVersion ==
    (vOp \in {"getVersionSpec", "getCycleTiming", "decodeCycle"}
        /\ version \notin Versions) =>
        /\ vResult.kind = "error"
        /\ vResult.message = ErrUnsupported


(***************************************************************************)
(* SpecChannel: the codec pipeline over a channel that disturbs columns.   *)
(* A disturbed column has the tone of its last chunk slot replaced by the  *)
(* tone of chunk value 63, so that the bits decodeCycle discards beyond    *)
(* matrixSize rows are not all zero.  Columns are disturbed left to right. *)
(***************************************************************************)
\* "cycles with >20% corrupted columns are discarded"
CorruptionCeilingPercent == 20

ChannelMatrices(v) ==
    {WordMatrix(MatrixSize(v), 0), CellMatrix(MatrixSize(v), 0, 0)}

\* the slot of the last chunk of column col, 1-based
LastSlotOf(v, col) == (col + 1) * ChunksPerCol(v)

DisturbedTone == getFrequencyForChunk(Bins - 1)

\* the columns whose last slot no longer holds the tone that was sent
DisturbedColumns ==
    {col \in 0..(MatrixSize(version) - 1) :
        tones[LastSlotOf(version, col)]
            # getFrequencyForChunk(chunks[LastSlotOf(version, col)])}

\* the columns of which a discarded padding bit is not zero
CorruptedColumns ==
    {col \in 0..(MatrixSize(version) - 1) :
        \E i \in (MatrixSize(version) + 1)..Len(colBits[col]) : colBits[col][i] # 0}

ChannelInit ==
    /\ EncIdle
    /\ DecIdle
    /\ GzIdle
    /\ LiveIdle
    /\ VersionIdle
    /\ GridIdle
    /\ ToneIdle
    /\ RecoverIdle
    /\ AlignIdle
    /\ VoteIdle
    /\ LengthIdle
    /\ WindowIdle
    /\ MicIdle
    /\ version \in Versions
    /\ qrMatrix \in ChannelMatrices(version)
    /\ chunks = << >>
    /\ tones = << >>
    /\ colBits = << >>
    /\ decodedMatrix = << >>
    /\ cpc = "matrix"

\* the channel replaces the last tone of the next undisturbed column
DisturbColumn ==
    /\ cpc = "tones"
    /\ Cardinality(DisturbedColumns) < MatrixSize(version)
    /\ tones' = [tones EXCEPT
                    ![LastSlotOf(version, Cardinality(DisturbedColumns))] = DisturbedTone]
    /\ UNCHANGED <<version, qrMatrix, chunks, colBits, decodedMatrix, cpc>>
    /\ UNCHANGED codecFrame

ChannelNext == ConvertMatrix \/ EmitDataTones \/ DisturbColumn \/ DemodulateCycle

SpecChannel == ChannelInit /\ [][ChannelNext]_vars

\* C12: a matrix is handed to the QR decode only when the columns with a
\* non-zero discarded padding bit are at most the corruption ceiling's share
\* of all columns; a candidate above the ceiling is aborted.
C12_CorruptionCeiling ==
    cpc = "decoded" =>
        Cardinality(CorruptedColumns) * 100
            <= CorruptionCeilingPercent * MatrixSize(version)


-----------------------------------------------------------------------------
(***************************************************************************)
(* Frequency plans: chunk value to frequency and back                      *)
(***************************************************************************)

GridMargin == 2

\* the chunk values handed to the mapping, a margin outside 0..63 included
GridValues == (0 - GridMargin)..(Bins - 1 + GridMargin)

\* "config": getFrequencyConfig of the encoder's AudioProcessor;
\* "grid":   getFrequencyGrid / getBoundaryMarkers of the same file;
\* "legacy": getFrequencyGrid / getBoundaryMarkers of utils/audioUtils.js
Plans == {"config", "grid", "legacy"}

\* getFrequencyGrid: baseFreq = 15200
GridBase == 15200

\* getBoundaryMarkers of utils/audioUtils.js: 1: { start: 14000, end: 14100 }
LegacyMarkerBase == 14000

\* start-marker frequency of version v in a plan
PlanStart(plan, v) ==
    IF plan = "legacy" THEN LegacyMarkerBase + (v - 1) * 200
    ELSE VersionStart(v)

\* end-marker frequency of version v in a plan
PlanEnd(plan, v) ==
    IF plan = "legacy" THEN LegacyMarkerBase + 100 + (v - 1) * 200
    ELSE EndMarkerTable[v]

\* a data grid that starts 100 Hz above the plan's last end marker
PlanDataStartNear(plan) == PlanEnd(plan, 5) + 100

\* first data-grid frequency of a plan
PlanDataStart(plan) == IF plan = "config" THEN DataStart ELSE GridBase

\* frequencies.push(baseFreq + i * 30), i < 64
PlanGrid(plan) == [i \in 0..(Bins - 1) |-> PlanDataStart(plan) + i * Step]

\* the ten marker frequencies of a plan, tagged by role and version
PlanMarkers(plan) ==
    [m \in {"start", "end"} \X Versions |->
        IF m[1] = "start" THEN PlanStart(plan, m[2]) ELSE PlanEnd(plan, m[2])]

\* chunk value to frequency: getFrequencyForChunk in the "config" plan,
\* frequencies[chunkValue] in the two grid plans (undefined outside 0..63)
chunkFrequency(plan, value) ==
    IF plan = "config" THEN getFrequencyForChunk(value)
    ELSE PlanGrid(plan)[value]

\* how the lookup ends: with a number, with the thrown range error, or with
\* the undefined of an index outside the frequencies array
lookupOutcome(plan, value) ==
    IF plan = "config"
    THEN IF chunkOutOfRange(value) THEN "threw" ELSE "freq"
    ELSE IF value \in 0..(Bins - 1) THEN "freq" ELSE "undefined"

RECURSIVE BestFreqIdx(_, _, _, _, _)
\* for (freqIdx...) { if (strength > bestStrength) {...} }
BestFreqIdx(plan, toneFreq, freqIdx, bestStrength, best) ==
    IF freqIdx >= Bins THEN IF bestStrength > 0 THEN best ELSE 0
    ELSE LET strength == IdealStrength(toneFreq, PlanGrid(plan)[freqIdx])
         IN  IF strength > bestStrength
             THEN BestFreqIdx(plan, toneFreq, freqIdx + 1, strength, freqIdx)
             ELSE BestFreqIdx(plan, toneFreq, freqIdx + 1, bestStrength, best)

\* frequency back to the chunk value: detectChunkValue in the "config" plan,
\* the best-matching grid index in the two grid plans
detectGridIndex(plan, toneFreq) ==
    IF plan = "config" THEN detectChunkValue(toneFreq)
    ELSE BestFreqIdx(plan, toneFreq, 0, 0, 0)

GridInit ==
    /\ CodecIdle
    /\ EncIdle
    /\ DecIdle
    /\ GzIdle
    /\ LiveIdle
    /\ VersionIdle
    /\ ToneIdle
    /\ RecoverIdle
    /\ AlignIdle
    /\ VoteIdle
    /\ LengthIdle
    /\ WindowIdle
    /\ MicIdle
    /\ version = 1
    /\ qrMatrix = << >>
    /\ chunks = << >>
    /\ gridPlan \in Plans
    /\ gridValue \in GridValues
    /\ gridFreq = 0
    /\ gridDetected = 0
    /\ gridPc = "value"

\* the encoder looks up the frequency of a chunk value
MapChunk ==
    /\ gridPc = "value"
    /\ gridPc' = lookupOutcome(gridPlan, gridValue)
    /\ gridFreq' = IF gridPc' = "freq" THEN chunkFrequency(gridPlan, gridValue)
                   ELSE 0
    /\ UNCHANGED <<gridPlan, gridValue, gridDetected>>
    /\ UNCHANGED gridFrame

\* the decoder reads the chunk value of a tone at that frequency
DetectChunk ==
    /\ gridPc = "freq"
    /\ gridDetected' = detectGridIndex(gridPlan, gridFreq)
    /\ gridPc' = "detected"
    /\ UNCHANGED <<gridPlan, gridValue, gridFreq>>
    /\ UNCHANGED gridFrame

GridNext == MapChunk \/ DetectChunk

SpecGrid == GridInit /\ [][GridNext]_vars

\* C15: getFrequencyForChunk(v) is dataStart + 30 * v for v in 0..63, takes
\* distinct values on 0..63 and fails outside 0..63; the value read back from
\* a tone at the frequency of chunk v is v.
C15_ChunkFrequencyBijection ==
    /\ (gridPlan = "config" /\ gridPc # "value") =>
        /\ gridValue \in 0..(Bins - 1) =>
            /\ gridPc \in {"freq", "detected"}
            /\ gridFreq = DataStart + 30 * gridValue
            /\ \A other \in 0..(Bins - 1) :
                  other # gridValue => getFrequencyForChunk(other) # gridFreq
        /\ gridValue \notin 0..(Bins - 1) => gridPc = "threw"
    /\ gridPc = "detected" => gridDetected = gridValue

C15_Witness ==
    /\ gridPlan = "config"
    /\ gridPc = "detected"
    /\ gridValue = Bins - 1
    /\ gridFreq = 24090
    /\ gridDetected = Bins - 1

C15_WitnessOutside ==
    /\ gridPlan = "config"
    /\ gridPc = "threw"
    /\ gridValue = Bins


\* detection tolerance around a grid frequency: +/-10 Hz
ToleranceHz == 10

\* required marker-to-marker and marker-to-data separations
MarkerSeparationHz == 100

DataGapHz == 300

\* C16: in every frequency plan adjacent data-grid frequencies are exactly
\* 30 Hz apart, so their +/-10 Hz bands are disjoint; the ten marker
\* frequencies are pairwise at least 100 Hz apart; every marker frequency is
\* at least 300 Hz away from every data-grid frequency.
C16_PlanSeparation ==
    gridPlan \in Plans =>
        LET grid == PlanGrid(gridPlan)
            markers == PlanMarkers(gridPlan)
        IN  /\ \A i \in 0..(Bins - 2) :
                /\ grid[i + 1] - grid[i] = 30
                /\ grid[i] + ToleranceHz < grid[i + 1] - ToleranceHz
            /\ \A m1 \in DOMAIN markers : \A m2 \in DOMAIN markers :
                m1 # m2 => Abs(markers[m1] - markers[m2]) >= MarkerSeparationHz
            /\ \A m \in DOMAIN markers : \A i \in 0..(Bins - 1) :
                Abs(markers[m] - grid[i]) >= DataGapHz

\* the plan whose last end marker sits exactly 300 Hz under the first data
\* frequency, with that first data frequency in use
C16_Witness ==
    /\ gridPlan = "config"
    /\ gridPc = "detected"
    /\ gridValue = 0
    /\ gridFreq = PlanEnd("config", 5) + DataGapHz


-----------------------------------------------------------------------------
(***************************************************************************)
(* Embed amplitude of the encode variants, and AudioProcessor.generateTone *)
(***************************************************************************)

\* "encoder": encode of utils/soundQREncoder.js;
\* "relative": the encode that takes peak * 0.1 as it is;
\* "floored":  the encode that introduces minAmplitude
EncodeVariants == {"encoder", "relative", "floored"}

MaxCarrierLen == 2

\* carrier samples in thousandths, both signs
SampleLevels == {0 - 500, 0, 100, 500}

ToneCarriers ==
    UNION {[1..n -> SampleLevels] : n \in 0..MaxCarrierLen}

\* the durations generateTone is called with, in milliseconds
ToneDurations == {0 - 100, 0 - 1, 0, 1, ChunkMs, MarkerMs}

\* the sample rate of the AudioProcessor
ToneSampleRate == 48000

\* const embedAmplitude = ... of the three encodes
embedAmplitudeOf(variant, channelData) ==
    IF variant = "relative" THEN PeakOf(channelData) \div PeakDivisor
    ELSE Max(PeakOf(channelData) \div PeakDivisor, MinAmplitude)

\* AudioProcessor.generateTone: Math.floor(duration * sampleRate) samples;
\* a Float32Array of negative length throws a RangeError
toneSamplesOf(ms, amplitude, sr) ==
    LET length == (sr * ms) \div 1000
    IN  IF length < 0
        THEN [kind |-> "error", message |-> "RangeError: Invalid typed array length",
              len |-> 0, amp |-> 0]
        ELSE [kind |-> "samples", message |-> "", len |-> length, amp |-> amplitude]

ToneInit ==
    /\ CodecIdle
    /\ EncIdle
    /\ DecIdle
    /\ GzIdle
    /\ LiveIdle
    /\ VersionIdle
    /\ GridIdle
    /\ RecoverIdle
    /\ AlignIdle
    /\ VoteIdle
    /\ LengthIdle
    /\ WindowIdle
    /\ MicIdle
    /\ version = 1
    /\ qrMatrix = << >>
    /\ chunks = << >>
    /\ toneVariant \in EncodeVariants
    /\ toneCarrier \in ToneCarriers
    /\ toneAmplitude = 0
    /\ toneDurationMs \in ToneDurations
    /\ toneBuffer = << >>
    /\ tonePc = "load"

\* encode: peak of channel 0 and the embed amplitude
MeasurePeak ==
    /\ tonePc = "load"
    /\ toneAmplitude' = embedAmplitudeOf(toneVariant, toneCarrier)
    /\ tonePc' = "measured"
    /\ UNCHANGED <<toneVariant, toneCarrier, toneDurationMs, toneBuffer>>
    /\ UNCHANGED toneFrame

\* generateTone(frequency, duration, embedAmplitude)
CallGenerateTone ==
    /\ tonePc = "measured"
    /\ toneBuffer' = toneSamplesOf(toneDurationMs, toneAmplitude, ToneSampleRate)
    /\ tonePc' = "tone"
    /\ UNCHANGED <<toneVariant, toneCarrier, toneAmplitude, toneDurationMs>>
    /\ UNCHANGED toneFrame

ToneNext == MeasurePeak \/ CallGenerateTone

SpecTone == ToneInit /\ [][ToneNext]_vars

\* C17: the embed amplitude is max(peak * 0.1, 0.02), peak being the largest
\* absolute sample of carrier channel 0; it is at least 0.02 even for an
\* all-zero carrier, so every emitted tone has a non-zero amplitude.
C17_FloorAmplitude ==
    tonePc \in {"measured", "tone"} =>
        /\ toneAmplitude = Max(PeakOf(toneCarrier) \div 10, 20)
        /\ toneAmplitude >= 20
        /\ (tonePc = "tone" /\ toneBuffer.kind = "samples") => toneBuffer.amp > 0

\* C18: generateTone called with a duration <= 0 is rejected with an error
\* and returns no sample buffer, not even an empty one.
C18_DurationRejected ==
    (tonePc = "tone" /\ toneDurationMs <= 0) => toneBuffer.kind = "error"


\* C19: in every cycle encode emits for version v the start-marker tone is
\* synthesized at the number versionStart[v] and the end-marker tone at the
\* number that is the end-marker frequency of the same version.
C19_MarkerFrequencies ==
    (epc \in {"cycles", "merged", "done"} /\ version \in Versions) =>
        \A i \in 1..Len(encodedParts) :
            /\ encodedParts[i].role = "start" =>
                   encodedParts[i].freq = Number(VersionStart(version))
            /\ encodedParts[i].role = "end" =>
                   encodedParts[i].freq = Number(EndMarkerTable[version])


\* the largest number of candidates one decode call may attempt
AttemptCap == 5

\* positions in validCycles of the candidates decodeCycle was called on
AttemptedPositions ==
    {j \in 1..Len(gCycles) : j <= gIdx \/ (gOutcome = "ok" /\ j = gIdx + 1)}

\* C20: decode attempts the candidates in non-increasing order of confidence
\* and attempts no more than five of them in one call.
C20_RankedAndCapped ==
    /\ \A i \in AttemptedPositions : \A j \in AttemptedPositions :
           i < j => gCycles[i].confidence >= gCycles[j].confidence
    /\ Cardinality(AttemptedPositions) <= AttemptCap


\* emergencyThreshold = 0.000001, below the smallest strength the recordings
\* distinguish
EmergencyThreshold == 0

\* emergencyDetection: the windows whose version-1 start-marker strength is
\* above the emergency threshold, of which the first three become candidates
emergencyWindows(rec) ==
    {w \in 0..(NumWindows - 1) : MarkerEnergy(rec, w, 1) > EmergencyThreshold}

\* C21: when the marker scan yields no candidate, emergencyDetection is run
\* and its candidates are attempted before decode reports the no-cycle
\* failure; the failure is reported only when the fallback found nothing too.
C21_EmergencyFallback ==
    (gpc = "done" /\ gOutcome = ErrNoSoundQR) =>
        \A w \in emergencyWindows(gMarkers) :
            \E cycle \in AttemptedCycles : cycle.startTime = w


\* C22: any two candidates detectValidCycles returns start at least 0.8 s
\* apart; a window above the threshold within 0.8 s of an existing candidate
\* adds no candidate, whatever its version.
C22_CandidateSeparation ==
    gpc # "scan" =>
        /\ \A i \in 1..Len(gCycles) : \A j \in 1..Len(gCycles) :
               i # j => Abs(gCycles[i].startTime - gCycles[j].startTime) >= Separation
        /\ \A k \in 1..Len(gMarkers) :
               gMarkers[k].energy > threshold =>
                   \E i \in 1..Len(gCycles) :
                       Abs(gCycles[i].startTime - gMarkers[k].window) < Separation

\* two start markers above the threshold, of different versions, less than
\* 0.8 s apart: one candidate
C22_Witness ==
    /\ gpc # "scan"
    /\ Len(gMarkers) = 2
    /\ gMarkers[1].energy > threshold
    /\ gMarkers[2].energy > threshold
    /\ gMarkers[1].version # gMarkers[2].version
    /\ gMarkers[2].window - gMarkers[1].window = Separation - 1
    /\ Len(gCycles) = 1


-----------------------------------------------------------------------------
(***************************************************************************)
(* SoundQRDecoder.decodeCycle of utils/soundQRDecoder.js: the column loop  *)
(***************************************************************************)

\* audioBuffer.sampleRate of the recordings decodeCycle is run on
RecoverSampleRate == 1000

\* the received chunk values run through 1..63 from a first value on
MaxFirstChunk == 3

\* Math.floor(sampleRate * ms / 1000)
SamplesOf(ms) == (RecoverSampleRate * ms) \div 1000

\* timing.<name>: a property the object does not have reads as undefined
PropertyOf(object, name) ==
    IF name \in DOMAIN object THEN Number(object[name])
    ELSE [type |-> "undefined", val |-> 0]

\* Math.floor(sampleRate * x / 1000): NaN when x is undefined
FloorSamples(x) ==
    IF x.type = "number" THEN Number(SamplesOf(x.val))
    ELSE [type |-> "NaN", val |-> 0]

\* a < b of JavaScript: false when a is NaN
LessThan(a, b) == a.type = "number" /\ a.val < b

\* the chunk slot (1-based) whose tone sounds at sample offset
SlotAt(offset) == ((offset - SamplesOf(MarkerMs)) \div SamplesOf(ChunkMs)) + 1

RECURSIVE readColumnChunks(_, _, _, _, _)
\* for (chunkIdx...) { if (sampleOffset >= cycleData.length) break; ... }
readColumnChunks(chunkIdx, read, offset, v, rx) ==
    IF chunkIdx >= ChunksPerCol(v) \/ offset >= rcCycleLen
    THEN [chunks |-> read, offset |-> offset]
    ELSE readColumnChunks(chunkIdx + 1, Append(read, rx[SlotAt(offset)]),
                          offset + SamplesOf(ChunkMs), v, rx)

RECURSIVE decodeColumnsFrom(_, _, _, _, _)
\* for (col = 0; col < spec.size && sampleOffset < cycleData.length; col++)
decodeColumnsFrom(col, columns, offset, v, rx) ==
    IF col >= MatrixSize(v) \/ ~LessThan(offset, rcCycleLen)
    THEN [columns |-> columns, offset |-> offset]
    ELSE LET column == readColumnChunks(0, << >>, offset.val, v, rx)
         IN  IF Len(column.chunks) >= 0
             THEN decodeColumnsFrom(col + 1, Append(columns, column.chunks),
                                    Number(column.offset), v, rx)
             ELSE [columns |-> columns, offset |-> offset]

\* chunksToMatrixColumn: matrix[row][col] = (chunkValue >> bit) & 1
ColumnBit(columnChunks, row) ==
    IF (row \div ChunkBits) + 1 <= Len(columnChunks)
    THEN (columnChunks[(row \div ChunkBits) + 1] \div (2 ^ (row % ChunkBits))) % 2
    ELSE 0

\* the zero-initialised matrix with the columns the loop reached filled in
matrixOfColumns(columns, n) ==
    [row \in 0..(n - 1) |-> [col \in 0..(n - 1) |->
        IF col + 1 <= Len(columns) THEN ColumnBit(columns[col + 1], row) ELSE 0]]

\* the chunk values of the slots of a cycle: no slot holds the value 0
ReceivedFrom(v, first) ==
    [slot \in 1..(MatrixSize(v) * ChunksPerCol(v)) |->
        ((first + slot - 2) % (Bins - 1)) + 1]

\* the buffer ends one chunk short of the data, with the cycle, or after it
AvailableLengths(v) ==
    {SamplesOf(MarkerMs + CycleDataMs(v) - ChunkMs),
     SamplesOf(getCycleTiming(v).totalTime),
     SamplesOf(getCycleTiming(v).totalTime + GapMs)}

RecoverInit ==
    /\ CodecIdle
    /\ EncIdle
    /\ DecIdle
    /\ GzIdle
    /\ LiveIdle
    /\ VersionIdle
    /\ GridIdle
    /\ ToneIdle
    /\ AlignIdle
    /\ VoteIdle
    /\ LengthIdle
    /\ WindowIdle
    /\ MicIdle
    /\ version \in Versions
    /\ qrMatrix = << >>
    /\ chunks = << >>
    /\ \E first \in 1..MaxFirstChunk : rcReceived = ReceivedFrom(version, first)
    /\ rcAvailable \in AvailableLengths(version)
    /\ rcCycleLen = 0
    /\ rcOffset = << >>
    /\ rcColumns = << >>
    /\ rcMatrix = << >>
    /\ rcPc = "start"

\* timing, the slice of the cycle and the skip over the start marker
SliceCycle ==
    /\ rcPc = "start"
    /\ LET timing == getCycleTiming(version)
           expectedCycleSamples == SamplesOf(timing.totalTime)
       IN  /\ rcCycleLen' = Min(expectedCycleSamples, rcAvailable)
           /\ rcOffset' = FloorSamples(PropertyOf(timing, "startMarker"))
    /\ rcPc' = "columns"
    /\ UNCHANGED <<rcReceived, rcAvailable, rcColumns, rcMatrix>>
    /\ UNCHANGED recoverFrame

\* the column loop, and the matrix handed to decodeQRMatrix
DecodeColumns ==
    /\ rcPc = "columns"
    /\ LET result == decodeColumnsFrom(0, << >>, rcOffset, version, rcReceived)
       IN  /\ rcColumns' = result.columns
           /\ rcOffset' = result.offset
    /\ rcMatrix' = matrixOfColumns(rcColumns', MatrixSize(version))
    /\ rcPc' = "decoded"
    /\ UNCHANGED <<rcReceived, rcAvailable, rcCycleLen>>
    /\ UNCHANGED recoverFrame

RecoverNext == SliceCycle \/ DecodeColumns

SpecRecover == RecoverInit /\ [][RecoverNext]_vars

\* C23: on a buffer that holds a complete cycle decodeCycle demodulates every
\* chunk slot of every column, and the bits of every column that was read are
\* placed in the matrix (low bit of a chunk in the first row of its group).
C23_ColumnRecovery ==
    (rcPc = "decoded"
        /\ rcAvailable >= SamplesOf(getCycleTiming(version).totalTime)) =>
        /\ Len(rcColumns) = MatrixSize(version)
        /\ \A col \in 0..(MatrixSize(version) - 1) :
               /\ Len(rcColumns[col + 1]) = ChunksPerCol(version)
               /\ \A row \in 0..(MatrixSize(version) - 1) :
                      rcMatrix[row][col] =
                          (rcReceived[col * ChunksPerCol(version)
                                      + (row \div ChunkBits) + 1]
                              \div (2 ^ (row % ChunkBits))) % 2


-----------------------------------------------------------------------------
(***************************************************************************)
(* SoundQRDecoder.refineCycleAlignment                                     *)
(***************************************************************************)

\* the sample rate of the aligned recordings: one sample per millisecond
AlignSampleRate == 1000

\* Math.floor(sr * 0.1): searchRange and windowLen
SearchRange == AlignSampleRate \div 10

WindowLen == AlignSampleRate \div 10

\* Math.floor(sr * 0.005)
CoarseStep == (AlignSampleRate * 5) \div 1000

\* Math.floor(sr * 0.01)
FineRange == AlignSampleRate \div 100

\* Math.floor(sr * 0.001)
FineStep == AlignSampleRate \div 1000

\* the coarse timestamps are multiples of the scan step of detectValidCycles
MaxCenterSteps == 4

AlignCenters == {k * (WindowLen \div 2) : k \in 0..MaxCenterSteps}

\* the marker begins up to 100 ms before or after the coarse timestamp
MarkerOffsets == {10 * k - 100 : k \in 0..20}

\* the recording ends 200 ms or 350 ms after the last coarse timestamp
AlignLengths ==
    {MaxCenterSteps * (WindowLen \div 2) + 200, MaxCenterSteps * (WindowLen \div 2) + 350}

\* calculateFrequencyStrength of the window at sample i: the part of the
\* window the marker tone fills
AlignEnergy(i, markerAt) ==
    LET overlap == WindowLen - Abs(i - markerAt)
    IN  IF overlap > 0 THEN overlap ELSE 0

\* the positions for (i = from; i < to; i += step) visits
LoopPositions(from, to, step) ==
    {i \in from..(to - 1) : (i - from) % step = 0}

\* if (energy > maxEnergy) { maxEnergy = energy; bestSampleIndex = i }
\* over positions visited in increasing order: the first position of the
\* largest energy, when that energy exceeds the energy held before
ScanBest(positions, markerAt, held) ==
    LET above == {i \in positions : AlignEnergy(i, markerAt) > held.maxEnergy}
    IN  IF above = {} THEN held
        ELSE LET top == CHOOSE i \in above :
                            \A j \in above :
                                \/ AlignEnergy(j, markerAt) < AlignEnergy(i, markerAt)
                                \/ (AlignEnergy(j, markerAt) = AlignEnergy(i, markerAt)
                                        /\ i <= j)
             IN  [maxEnergy |-> AlignEnergy(top, markerAt), bestSampleIndex |-> top]

\* startIdx .. endIdx - windowLen in steps of coarseStep
coarsePositions(center, len) ==
    LoopPositions(Max(0, center - SearchRange),
                  Min(len, center + SearchRange) - WindowLen, CoarseStep)

\* fineStart .. fineEnd in steps of 1 ms
finePositions(best, len) ==
    LoopPositions(Max(0, best - FineRange), Min(len, best + FineRange), FineStep)

AlignInit ==
    /\ CodecIdle
    /\ EncIdle
    /\ DecIdle
    /\ GzIdle
    /\ LiveIdle
    /\ VersionIdle
    /\ GridIdle
    /\ ToneIdle
    /\ RecoverIdle
    /\ VoteIdle
    /\ LengthIdle
    /\ WindowIdle
    /\ MicIdle
    /\ version = 1
    /\ qrMatrix = << >>
    /\ chunks = << >>
    /\ alCenter \in AlignCenters
    /\ alDataLen \in AlignLengths
    /\ \E offset \in MarkerOffsets :
         /\ alCenter + offset >= 0
         /\ alMarkerAt = alCenter + offset
    /\ alCoarse = {}
    /\ alFine = {}
    /\ alBest = 0
    /\ alPc = "call"

\* refineCycleAlignment: coarse scan, fine scan, bestSampleIndex
RefineAlignment ==
    /\ alPc = "call"
    /\ alCoarse' = coarsePositions(alCenter, alDataLen)
    /\ LET coarse == ScanBest(alCoarse', alMarkerAt,
                              [maxEnergy |-> 0 - 1, bestSampleIndex |-> alCenter])
       IN  /\ alFine' = finePositions(coarse.bestSampleIndex, alDataLen)
           /\ alBest' = ScanBest(alFine', alMarkerAt, coarse).bestSampleIndex
    /\ alPc' = "done"
    /\ UNCHANGED <<alCenter, alDataLen, alMarkerAt>>
    /\ UNCHANGED alignFrame

AlignNext == RefineAlignment

SpecAlign == AlignInit /\ [][AlignNext]_vars

\* C24: the coarse pass evaluates positions over the whole interval from
\* 100 ms before to 100 ms after the coarse timestamp, the fine pass positions
\* within 10 ms of the coarse best; the returned position has the largest
\* energy of all evaluated positions, lies in the buffer, and is within
\* 110 ms of the coarse timestamp.
C24_AlignCoverage ==
    alPc = "done" =>
        /\ \A t \in Max(0, alCenter - SearchRange)
                      ..Min(alDataLen - WindowLen, alCenter + SearchRange) :
               \E i \in alCoarse : Abs(i - t) < CoarseStep
        /\ \A i \in alFine : \E c \in alCoarse \cup {alCenter} : Abs(i - c) <= FineRange
        /\ \A i \in alCoarse \cup alFine :
               AlignEnergy(i, alMarkerAt) <= AlignEnergy(alBest, alMarkerAt)
        /\ alBest \in 0..(alDataLen - 1)
        /\ Abs(alBest - alCenter) <= SearchRange + FineRange


-----------------------------------------------------------------------------
(***************************************************************************)
(* detectBitWithFallback: four detectors and their vote                    *)
(***************************************************************************)

\* rms of a segment in units of 0.00001: silent, between the two energy
\* thresholds, loud
RmsLevels == {0, 5, 1000}

\* correlation and DFT magnitude in units of 0.0001
StrengthLevels == {0, 5, 50, 150, 2500}

\* zero crossings of a 10 ms segment: few, at freq0, between, at freq1
CrossingLevels == {5, 420, 430, 439}

\* freq * 2 * (segment.length / sampleRate) for freq0 = 21000, freq1 = 22000
ExpectedCrossings0 == 420

ExpectedCrossings1 == 440

\* the comparison both correlation detectors and the DFT detector make;
\* ratio is given in tenths of a percent
compareStrengths(s0, s1, limit, ratioPermille) ==
    IF s0 > limit /\ s0 * 1000 > s1 * ratioPermille THEN "0"
    ELSE IF s1 > limit /\ s1 * 1000 > s0 * ratioPermille THEN "1"
    ELSE "null"

\* rms < 0.0001 -> null; threshold = 0.01, ratio = 1.1
detectBitImproved(rms, corr) ==
    IF rms < 10 THEN "null" ELSE compareStrengths(corr[1], corr[2], 100, 1100)

\* rms < 0.00001 -> null; threshold = 0.001, ratio = 1.05
detectBitRelaxed(rms, corr) ==
    IF rms < 1 THEN "null" ELSE compareStrengths(corr[1], corr[2], 10, 1050)

\* threshold = 0.0001, factor 1.1
detectBitFrequencySimple(power) == compareStrengths(power[1], power[2], 1, 1100)

\* diff0 < diff1 * 0.9 && crossings > 10
detectBitZeroCrossing(crossings) ==
    LET diff0 == Abs(crossings - ExpectedCrossings0)
        diff1 == Abs(crossings - ExpectedCrossings1)
    IN  IF diff0 * 10 < diff1 * 9 /\ crossings > 10 THEN "0"
        ELSE IF diff1 * 10 < diff0 * 9 /\ crossings > 10 THEN "1"
        ELSE "null"

\* votes.reduce((acc, bit) => { acc[bit] = (acc[bit] || 0) + 1 ... })
voteCount(bits, bit) == Cardinality({k \in 1..Len(bits) : bits[k] = bit})

\* Object.keys(voteCount) lists '0' before '1'; the reduce keeps the left key
\* only when its count is strictly larger
voteWinner(bits) ==
    IF voteCount(bits, "0") + voteCount(bits, "1") = 0 THEN "null"
    ELSE IF voteCount(bits, "1") = 0 THEN "0"
    ELSE IF voteCount(bits, "0") = 0 THEN "1"
    ELSE IF voteCount(bits, "0") > voteCount(bits, "1") THEN "0" ELSE "1"

\* a silent segment has no strength anywhere; the DFT magnitude at a
\* frequency is at least the sine correlation at it
VoteInit ==
    /\ CodecIdle
    /\ EncIdle
    /\ DecIdle
    /\ GzIdle
    /\ LiveIdle
    /\ VersionIdle
    /\ GridIdle
    /\ ToneIdle
    /\ RecoverIdle
    /\ AlignIdle
    /\ LengthIdle
    /\ WindowIdle
    /\ MicIdle
    /\ version = 1
    /\ qrMatrix = << >>
    /\ chunks = << >>
    /\ vtRms \in RmsLevels
    /\ vtCorrelation \in StrengthLevels \X StrengthLevels
    /\ vtPower \in StrengthLevels \X StrengthLevels
    /\ vtPower[1] >= vtCorrelation[1]
    /\ vtPower[2] >= vtCorrelation[2]
    /\ vtRms = 0 => vtPower = <<0, 0>>
    /\ vtCrossings \in CrossingLevels
    /\ vtBits = << >>
    /\ vtResult = "none"
    /\ vtPc = "call"

\* detectBitWithFallback(segment, sampleRate, segmentIndex)
DetectBitWithFallback ==
    /\ vtPc = "call"
    /\ vtBits' = <<detectBitImproved(vtRms, vtCorrelation),
                   detectBitRelaxed(vtRms, vtCorrelation),
                   detectBitFrequencySimple(vtPower),
                   detectBitZeroCrossing(vtCrossings)>>
    /\ vtResult' = voteWinner(vtBits')
    /\ vtPc' = "done"
    /\ UNCHANGED <<vtRms, vtCorrelation, vtPower, vtCrossings>>
    /\ UNCHANGED voteFrame

VoteNext == DetectBitWithFallback

SpecVote == VoteInit /\ [][VoteNext]_vars

\* C25: detectBitWithFallback returns null exactly when all four detectors
\* return null; otherwise the bit with strictly more votes, and on equal
\* counts the result of the primary detector detectBitImproved.
C25_MajorityVote ==
    vtPc = "done" =>
        /\ vtResult = "null" <=> \A k \in 1..4 : vtBits[k] = "null"
        /\ voteCount(vtBits, "0") > voteCount(vtBits, "1") => vtResult = "0"
        /\ voteCount(vtBits, "1") > voteCount(vtBits, "0") => vtResult = "1"
        /\ (voteCount(vtBits, "0") = voteCount(vtBits, "1")
                /\ voteCount(vtBits, "0") > 0) => vtResult = vtBits[1]


\* mediaRecorder.start(500): one chunk per 500 ms of audio
TimesliceMs == 500

\* the longest retention the repository uses for a rolling buffer:
\* targetSamples = sampleRate * 15 of the MicrophoneRecorder
RetainedMaxMs == 15000

\* C26: the audio retained for the live analysis never exceeds a fixed
\* maximum duration: after every capture callback at most the most recent
\* maximum duration of audio is held, older data having been discarded.
C26_BoundedBuffer == audioChunks * TimesliceMs <= RetainedMaxMs


-----------------------------------------------------------------------------
(***************************************************************************)
(* The column packers and unpackers of the repository                      *)
(***************************************************************************)

\* QRProcessor.processColumn: value |= (1 << bit) for a dark module in row
\* startRow + bit
processColumn(matrix, col, v) ==
    [i \in 1..ChunksPerCol(v) |->
        ParseBinaryLSB([bit \in 1..ChunkBits |->
            LET row == (i - 1) * ChunkBits + bit - 1
            IN  IF row < MatrixSize(v) /\ matrix[row][col] = 1 THEN 1 ELSE 0])]

\* the chunks convertMatrixToChunks emitted for a column
EmittedColumn(col) ==
    SubSeq(chunks, col * ChunksPerCol(version) + 1, (col + 1) * ChunksPerCol(version))

\* decodeCycle's unpack: bit row of chunkValue.toString(2).padStart(6, '0')
BinaryStringBit(columnChunks, row) ==
    BitOf(columnChunks[(row \div ChunkBits) + 1], row % ChunkBits)

\* C27: both column packers produce the same chunk values for a column, and
\* both unpackers yield the same bits for the same chunk values, so any
\* packer followed by any unpacker gives the column back.
C27_OneBitOrder ==
    cpc # "matrix" =>
        \A col \in 0..(MatrixSize(version) - 1) :
            /\ EmittedColumn(col) = processColumn(qrMatrix, col, version)
            /\ \A row \in 0..(MatrixSize(version) - 1) :
                /\ ColumnBit(EmittedColumn(col), row) = qrMatrix[row][col]
                /\ BinaryStringBit(EmittedColumn(col), row) = qrMatrix[row][col]


-----------------------------------------------------------------------------
(***************************************************************************)
(* Samples per cycle: what encode emits and what decodeCycle expects       *)
(***************************************************************************)

\* the sample rates the cycle length is stated for
SupportedRates == {44100, 48000, 96000}

\* a rate at which the tone lengths are not whole numbers of samples
OtherRates == {11025}

MaxEmitCycles == 3

\* Math.floor(sampleRate * timing.totalTime / 1000)
expectedCycleSamples(sr, v) == (sr * getCycleTiming(v).totalTime) \div 1000

LengthInit ==
    /\ CodecIdle
    /\ EncIdle
    /\ DecIdle
    /\ GzIdle
    /\ LiveIdle
    /\ VersionIdle
    /\ GridIdle
    /\ ToneIdle
    /\ RecoverIdle
    /\ AlignIdle
    /\ VoteIdle
    /\ WindowIdle
    /\ MicIdle
    /\ version \in Versions
    /\ qrMatrix = << >>
    /\ chunks = << >>
    /\ clRate \in SupportedRates \cup OtherRates
    /\ clStarts = << >>
    /\ clEmitted = 0
    /\ clExpected = 0

\* one pass of the cycle loop of encode: the lengths of the parts it pushes
EmitCycle ==
    /\ Len(clStarts) < MaxEmitCycles
    /\ clStarts' = Append(clStarts, clEmitted)
    /\ clEmitted' = clEmitted + CycleSamples(version, clRate)
    /\ UNCHANGED <<clRate, clExpected>>
    /\ UNCHANGED lengthFrame

\* decodeCycle: timing and expectedCycleSamples
ExpectCycle ==
    /\ clExpected = 0
    /\ clExpected' = expectedCycleSamples(clRate, version)
    /\ UNCHANGED <<clRate, clStarts, clEmitted>>
    /\ UNCHANGED lengthFrame

LengthNext == EmitCycle \/ ExpectCycle

SpecLength == LengthInit /\ [][LengthNext]_vars

\* C28: for versions 1..5 at 44100, 48000 and 96000 Hz the samples encode
\* emits per cycle equal floor(sampleRate * totalTime / 1000): cycle k begins
\* k cycle lengths after cycle 0, and the cycle length decodeCycle expects is
\* the emitted one.
C28_CycleLengthAgreement ==
    clRate \in SupportedRates =>
        LET cycleLength == (clRate * getCycleTiming(version).totalTime) \div 1000
        IN  /\ \A k \in 1..Len(clStarts) : clStarts[k] = (k - 1) * cycleLength
            /\ clEmitted = Len(clStarts) * cycleLength
            /\ clExpected # 0 => clExpected * Len(clStarts) = clEmitted

C28_Witness ==
    /\ clRate = 44100
    /\ version = 5
    /\ Len(clStarts) = 3
    /\ clStarts[3] = 2 * 707364
    /\ clExpected = 707364

\* at 11025 Hz the emitted cycle is shorter than the expected one
C28_OtherRateDiffers ==
    /\ clRate = 11025
    /\ version = 1
    /\ clEmitted = 61035
    /\ clExpected = 61078


-----------------------------------------------------------------------------
(***************************************************************************)
(* SoundQRDecoder.decodeCycle (Goertzel decoder): the sample window of     *)
(* every chunk slot against the tone encode emitted for the slot           *)
(***************************************************************************)

\* bufferSafety = 0.010
BufferSafetyMs == 10

\* the cycle begins with the buffer, one sample in, or one sample short of
\* a marker length in
MaxStartShift == 1

WindowStarts == 0..MaxStartShift \cup {ToneLength(44100, MarkerMs) - 1}

\* the time decodeCycle has reached at chunk slot j (0-based), in ms after
\* cycle.startTime
SlotTimeMs(j) == MarkerMs + AlignPadMs + j * ChunkMs

\* Math.floor((cycle.startTime + ms / 1000) * sampleRate) for a start time of
\* start / sampleRate seconds
SampleAt(sr, start, ms) == start + ((ms * sr) \div 1000)

\* a window that reads the whole 60 ms from the current time
wholeWindow(sr, start, j) ==
    [from |-> SampleAt(sr, start, SlotTimeMs(j)),
     to |-> SampleAt(sr, start, SlotTimeMs(j) + ChunkMs)]

\* data.slice(startSample, endSample): the centre 40 ms of the slot
slotWindow(sr, start, j) ==
    [from |-> SampleAt(sr, start, SlotTimeMs(j) + BufferSafetyMs),
     to |-> SampleAt(sr, start, SlotTimeMs(j) + ChunkMs - BufferSafetyMs)]

\* if (currentTime + totalDurationNeeded > audioBuffer.duration) return null
windowGuardFails(sr, start, len, v) ==
    start * 1000 + (MarkerMs + AlignPadMs + CycleDataMs(v)) * sr > len * 1000

\* the samples of the tone encode emitted for slot j of a cycle that begins
\* at sample start
EmittedSlot(sr, start, j) ==
    [from |-> start + ToneLength(sr, MarkerMs) + j * ToneLength(sr, ChunkMs),
     to |-> start + ToneLength(sr, MarkerMs) + (j + 1) * ToneLength(sr, ChunkMs)]

\* the buffer ends just before or just after the guard's limit, or with the
\* whole cycle
WindowLengths(sr, start, v) ==
    {start + (((MarkerMs + AlignPadMs + CycleDataMs(v)) * sr) \div 1000),
     start + (((MarkerMs + AlignPadMs + CycleDataMs(v)) * sr) \div 1000) + 1,
     start + CycleSamples(v, sr)}

WindowInit ==
    /\ CodecIdle
    /\ EncIdle
    /\ DecIdle
    /\ GzIdle
    /\ LiveIdle
    /\ VersionIdle
    /\ GridIdle
    /\ ToneIdle
    /\ RecoverIdle
    /\ AlignIdle
    /\ VoteIdle
    /\ LengthIdle
    /\ MicIdle
    /\ version \in Versions
    /\ qrMatrix = << >>
    /\ chunks = << >>
    /\ swRate \in SupportedRates
    /\ swStart \in WindowStarts
    /\ swLength \in WindowLengths(swRate, swStart, version)
    /\ swWindows = << >>
    /\ swPc = "call"

\* decodeCycle: the duration guard, then one window per chunk slot
ReadWindows ==
    /\ swPc = "call"
    /\ IF windowGuardFails(swRate, swStart, swLength, version)
       THEN /\ swPc' = "null"
            /\ swWindows' = swWindows
       ELSE /\ swPc' = "read"
            /\ swWindows' =
                   [slot \in 1..(MatrixSize(version) * ChunksPerCol(version)) |->
                       slotWindow(swRate, swStart, slot - 1)]
    /\ UNCHANGED <<swRate, swStart, swLength>>
    /\ UNCHANGED windowFrame

WindowNext == ReadWindows

SpecWindow == WindowInit /\ [][WindowNext]_vars

\* C29: when decodeCycle starts at the first sample of a cycle's start marker
\* and its guard passes, the window of every chunk slot lies inside the
\* samples of the tone emitted for that slot and inside the buffer.
C29_WindowsInsideSlots ==
    swPc = "read" =>
        /\ Len(swWindows) = MatrixSize(version) * ChunksPerCol(version)
        /\ \A slot \in 1..Len(swWindows) :
               LET tone == EmittedSlot(swRate, swStart, slot - 1)
               IN  /\ swWindows[slot].from < swWindows[slot].to
                   /\ tone.from <= swWindows[slot].from
                   /\ swWindows[slot].to <= tone.to
                   /\ 0 <= swWindows[slot].from
                   /\ swWindows[slot].to <= swLength

\* a version-5 cycle at 44100 Hz, one sample into a buffer that ends one
\* sample after the guard's limit
C29_Witness ==
    /\ swPc = "read"
    /\ version = 5
    /\ swRate = 44100
    /\ swStart = 1
    /\ swLength < swStart + CycleSamples(version, swRate)
    /\ Len(swWindows) = 37 * 7

-----------------------------------------------------------------------------
(***************************************************************************)
(* MicrophoneRecorder (components/Navigation/Navigation.js): the script    *)
(* processor's audio callback with its real-time decode, and the recording *)
(* whose stop starts processFullRecording.  Every handler runs as one task *)
(* of the page; the continuation of an await on a promise of an async      *)
(* function runs before the next task, the continuation of an await on the *)
(* platform's reading or decoding of the recording runs in a later task.   *)
(***************************************************************************)

\* the sample rate of the audio context in the model
MicSampleRate == 4096

\* createScriptProcessor(4096, 1, 1): samples per audio callback
ProcessorBufferSize == 4096

\* unsettled real-time decodes the model keeps track of
MaxRealtimeDecodes == 2

\* chunks one recording collects in the model
MaxRecordedChunks == 2

\* const targetSamples = audioContext.sampleRate * 15
targetSamples == MicSampleRate * 15

\* sampleBuffer.length > audioContext.sampleRate * 5
realtimeThreshold == MicSampleRate * 5

\* extractUltrasonicDataWithSearch: Math.min(10, floor(length / searchInterval) + 1)
maxSearchPositions(length) == Min(10, (length \div (15 * MicSampleRate)) + 1)

\* isProcessing as tryRealtimeDecoding reads it: the callback holds the
\* function of the render that set up the processor, whose state is the
\* initial useState(false)
isProcessingOfSetupRender == FALSE

awaitsAnything(at) == TRUE

\* the awaits that are settled by the platform in a later task:
\* audioBlob.arrayBuffer() and audioContext.decodeAudioData(arrayBuffer)
awaitsPlatform(at) == at \in {"arrayBuffer", "decodeAudioData"}

\* a continuation that runs before the page takes its next task
continuationPending ==
    \/ \E i \in 1..Len(realtimeDecodes) : ~awaitsPlatform(realtimeDecodes[i].at)
    \/ /\ fullRecording \notin {"idle", "onstop"}
       /\ ~awaitsPlatform(fullRecording)

RemoveAt(seq, i) == SubSeq(seq, 1, i - 1) \o SubSeq(seq, i + 1, Len(seq))

\* the state after the permission was granted and setupAudioProcessing ran
MicInit ==
    /\ CodecIdle
    /\ EncIdle
    /\ DecIdle
    /\ GzIdle
    /\ LiveIdle
    /\ VersionIdle
    /\ GridIdle
    /\ ToneIdle
    /\ RecoverIdle
    /\ AlignIdle
    /\ VoteIdle
    /\ LengthIdle
    /\ WindowIdle
    /\ version \in Versions
    /\ qrMatrix = << >>
    /\ chunks = << >>
    /\ sampleBuffer = 0
    /\ isProcessing = FALSE
    /\ realtimeDecodes = << >>
    /\ fullRecording = "idle"
    /\ micRecording = FALSE
    /\ recordedChunks = 0

\* processor.onaudioprocess: push, keep the last targetSamples, and past
\* five seconds call tryRealtimeDecoding, which runs up to its first
\* suspension, the await of extractBitsFromPosition
AudioProcess ==
    /\ ~continuationPending
    /\ Len(realtimeDecodes) < MaxRealtimeDecodes
    /\ LET pushed == sampleBuffer + ProcessorBufferSize
           kept == IF pushed > targetSamples THEN targetSamples ELSE pushed
       IN  /\ sampleBuffer' = kept
           /\ realtimeDecodes' =
                  IF kept > realtimeThreshold /\ ~isProcessingOfSetupRender
                  THEN Append(realtimeDecodes,
                              [samples |-> kept, at |-> "extractBitsFromPosition",
                               searchPos |-> 0, found |-> FALSE])
                  ELSE realtimeDecodes
    /\ UNCHANGED <<isProcessing, fullRecording, micRecording, recordedChunks>>
    /\ UNCHANGED micFrame

\* the loop of extractUltrasonicDataWithSearch after one position's bits:
\* a valid bit string returns, otherwise the next position or ''
ResumeSearch(i) ==
    /\ i \in 1..Len(realtimeDecodes)
    /\ realtimeDecodes[i].at = "extractBitsFromPosition"
    /\ \E valid \in BOOLEAN :
           LET d == realtimeDecodes[i]
               next == IF valid
                       THEN [d EXCEPT !.at = "extractUltrasonicDataWithSearch",
                                      !.found = TRUE]
                       ELSE IF d.searchPos + 1 < maxSearchPositions(d.samples)
                       THEN [d EXCEPT !.searchPos = d.searchPos + 1]
                       ELSE [d EXCEPT !.at = "extractUltrasonicDataWithSearch"]
           IN  realtimeDecodes' = [realtimeDecodes EXCEPT ![i] = next]
    /\ UNCHANGED <<sampleBuffer, isProcessing, fullRecording, micRecording, recordedChunks>>
    /\ UNCHANGED micFrame

\* decodeUltrasonicToQR after the search: fewer than 72 bits throw, otherwise
\* the matrix is rebuilt and decodeQRMatrix called; after decodeQRMatrix the
\* text is returned or the error thrown again
ResumeDecode(i) ==
    /\ i \in 1..Len(realtimeDecodes)
    /\ realtimeDecodes[i].at \in {"extractUltrasonicDataWithSearch", "decodeQRMatrix"}
    /\ LET d == realtimeDecodes[i]
           next == IF d.at = "extractUltrasonicDataWithSearch" /\ d.found
                   THEN [d EXCEPT !.at = "decodeQRMatrix"]
                   ELSE [d EXCEPT !.at = "decodeUltrasonicToQR"]
       IN  realtimeDecodes' = [realtimeDecodes EXCEPT ![i] = next]
    /\ UNCHANGED <<sampleBuffer, isProcessing, fullRecording, micRecording, recordedChunks>>
    /\ UNCHANGED micFrame

\* tryRealtimeDecoding after its await: onDecoded with the result, or the
\* silent catch
SettleRealtime(i) ==
    /\ i \in 1..Len(realtimeDecodes)
    /\ realtimeDecodes[i].at = "decodeUltrasonicToQR"
    /\ realtimeDecodes' = RemoveAt(realtimeDecodes, i)
    /\ UNCHANGED <<sampleBuffer, isProcessing, fullRecording, micRecording, recordedChunks>>
    /\ UNCHANGED micFrame

\* startRecording, behind the button that isProcessing disables
MicStartRecording ==
    /\ ~continuationPending
    /\ ~micRecording
    /\ ~isProcessing
    /\ fullRecording = "idle"
    /\ micRecording' = TRUE
    /\ recordedChunks' = 0
    /\ UNCHANGED <<sampleBuffer, isProcessing, realtimeDecodes, fullRecording>>
    /\ UNCHANGED micFrame

\* mediaRecorder.ondataavailable
MicDataAvailable ==
    /\ ~continuationPending
    /\ micRecording
    /\ recordedChunks < MaxRecordedChunks
    /\ recordedChunks' = recordedChunks + 1
    /\ UNCHANGED <<sampleBuffer, isProcessing, realtimeDecodes, fullRecording, micRecording>>
    /\ UNCHANGED micFrame

\* stopRecording: the recorder's stop event is queued
MicStopRecording ==
    /\ ~continuationPending
    /\ micRecording
    /\ ~isProcessing
    /\ micRecording' = FALSE
    /\ fullRecording' = "onstop"
    /\ UNCHANGED <<sampleBuffer, isProcessing, realtimeDecodes, recordedChunks>>
    /\ UNCHANGED micFrame

\* mediaRecorder.onstop: processFullRecording up to its first await
MicOnStop ==
    /\ ~continuationPending
    /\ fullRecording = "onstop"
    /\ IF recordedChunks = 0
       THEN /\ fullRecording' = "idle"
            /\ UNCHANGED isProcessing
       ELSE /\ isProcessing' = TRUE
            /\ fullRecording' = "arrayBuffer"
    /\ UNCHANGED <<sampleBuffer, realtimeDecodes, micRecording, recordedChunks>>
    /\ UNCHANGED micFrame

\* processFullRecording from one await to the next; a rejected await goes
\* through catch to finally
ResumeFullRecording ==
    /\ fullRecording \in {"arrayBuffer", "decodeAudioData", "debugAudioFile"}
    /\ awaitsPlatform(fullRecording) => ~continuationPending
    /\ \E rejected \in BOOLEAN :
           fullRecording' =
               IF rejected THEN "finally"
               ELSE IF fullRecording = "arrayBuffer" THEN "decodeAudioData"
               ELSE IF fullRecording = "decodeAudioData" THEN "debugAudioFile"
               ELSE "decodeUltrasonicToQR"
    /\ UNCHANGED <<sampleBuffer, isProcessing, realtimeDecodes, micRecording, recordedChunks>>
    /\ UNCHANGED micFrame

\* processFullRecording after its decode or its catch: setIsProcessing(false)
FinishFullRecording ==
    /\ fullRecording \in {"decodeUltrasonicToQR", "finally"}
    /\ isProcessing' = FALSE
    /\ fullRecording' = "idle"
    /\ UNCHANGED <<sampleBuffer, realtimeDecodes, micRecording, recordedChunks>>
    /\ UNCHANGED micFrame

ResumeSomeSearch == \E i \in 1..MaxRealtimeDecodes : ResumeSearch(i)

ResumeSomeDecode == \E i \in 1..MaxRealtimeDecodes : ResumeDecode(i)

SettleSomeRealtime == \E i \in 1..MaxRealtimeDecodes : SettleRealtime(i)

MicNext ==
    \/ AudioProcess
    \/ ResumeSomeSearch
    \/ ResumeSomeDecode
    \/ SettleSomeRealtime
    \/ MicStartRecording
    \/ MicDataAvailable
    \/ MicStopRecording
    \/ MicOnStop
    \/ ResumeFullRecording
    \/ FinishFullRecording

SpecMic == MicInit /\ [][MicNext]_vars

\* C30: at most one real-time decode started by tryRealtimeDecoding is
\* unsettled at any time, so no audio callback starts a decode while an
\* earlier one is still running.
C30_OneRealtimeDecode == Len(realtimeDecodes) <= 1

\* a real-time decode of the full fifteen seconds is suspended in its search
\* while processFullRecording, with isProcessing set, waits for the
\* recording to be decoded
C30_Witness ==
    /\ Len(realtimeDecodes) = 1
    /\ realtimeDecodes[1].samples = targetSamples
    /\ realtimeDecodes[1].searchPos = 1
    /\ isProcessing
    /\ fullRecording = "decodeAudioData"

=============================================================================
